---- MODULE Spec2Model ----
(***************************************************************************)
(* Model of the Sandbox automation engine of browser-extension-automation  *)
(* (src/src/automation.py, src/src/spa_automation.py): Test.run, the       *)
(* environment setup, the browser lifecycle, the wallet state probes and   *)
(* the flows open, existing, unlock_brute_force, idle_lock and             *)
(* access_control.                                                         *)
(*                                                                         *)
(* Text (passwords, wordlist lines, paths, the extra value) is a sequence  *)
(* of one-character strings, so that strip, split, lower and concatenation *)
(* are computed as Python computes them.                                   *)
(***************************************************************************)
EXTENDS Integers, Sequences, FiniteSets, TLC

VARIABLES
    test, value, password, wait_time, proxy, \* arguments of Test.__init__
    file, manifest, wallet, truePassword,   \* environment: wordlist file, extension, wallet
    pagesIn, fragmentsIn,                   \* the page list and the fragment list of access_control
    setup,                                  \* Test.__get_environment: its arguments, the directories, its position
    ui,                                     \* the extension's screens: the controls they render, the auto-lock setting
    playwright, context, url_base,          \* Sandbox fields
    rpc, exc, loop,                         \* Test.run: position, exception in flight, event loop
    task, pc, ret, texc,                    \* the coroutine on the loop: status, position, return labels, its exception
    page, wordlist, idx, state, paths, success, tmp, size,   \* locals of the flows
    tabs,                                   \* the pages of the browser context
    console, log, evals,                    \* observed: printed lines, browser actions issued, scan verdicts
    stopInvoked, lateActions,               \* observed: browser_stop calls, browser actions issued after the first one
    fin, fout                               \* argument and result of a pure function under check

inputs   == <<test, value, password, wait_time, proxy>>
given    == <<file, manifest, truePassword, pagesIn, fragmentsIn>>
env      == <<given, setup, ui>>
sandbox  == <<playwright, context, url_base>>
runner   == <<rpc, exc, loop>>
locals   == <<page, wordlist, idx, state, paths, success, tmp, size>>
observed == <<console, log, evals>>
pure     == <<fin, fout>>
vars     == <<inputs, env, wallet, sandbox, runner, task, pc, ret, texc, locals, tabs,
              observed, stopInvoked, lateActions, pure>>

----------------------------------------------------------------------------
(* Bounds of the model *)

MaxLines == 3
MaxFragments == 2
MaxSize == 1
MaxPages == 2
MaxCatalogFragments == 3
MaxSeqLen == 4
MaxDownloads == 2

----------------------------------------------------------------------------
(* Text helpers: Python's str methods on sequences of characters *)

Range(s) == {s[i] : i \in 1..Len(s)}

SeqsUpTo(S, n) == UNION {[1..k -> S] : k \in 0..n}

\* s[i:i+len(sub)] == sub
OccursAt(s, sub, i) ==
    /\ i >= 1
    /\ i + Len(sub) - 1 <= Len(s)
    /\ \A k \in 1..Len(sub) : s[i + k - 1] = sub[k]

Occurrences(s, sub) == {i \in 1..Len(s) : OccursAt(s, sub, i)}

Min(S) == CHOOSE x \in S : \A y \in S : x <= y
Max(S) == CHOOSE x \in S : \A y \in S : x >= y

\* s.split(sep, 1)[0]
SplitHead(s, sep) ==
    IF Occurrences(s, sep) = {} THEN s
    ELSE SubSeq(s, 1, Min(Occurrences(s, sep)) - 1)

\* s.split(sep, 1)[1] (only used where sep occurs)
SplitRest(s, sep) ==
    SubSeq(s, Min(Occurrences(s, sep)) + Len(sep), Len(s))

\* s.rsplit(sep, 1)[-1]
RSplitLast(s, sep) ==
    IF Occurrences(s, sep) = {} THEN s
    ELSE SubSeq(s, Max(Occurrences(s, sep)) + Len(sep), Len(s))

RECURSIVE Split(_, _)
\* s.split(sep)
Split(s, sep) ==
    IF Occurrences(s, sep) = {} THEN <<s>>
    ELSE <<SplitHead(s, sep)>> \o Split(SplitRest(s, sep), sep)

RECURSIVE LStrip(_, _)
\* s.lstrip(chars)
LStrip(s, chars) ==
    IF s # <<>> /\ Head(s) \in chars THEN LStrip(Tail(s), chars) ELSE s

RECURSIVE RStrip(_, _)
\* s.rstrip(chars)
RStrip(s, chars) ==
    IF s # <<>> /\ s[Len(s)] \in chars THEN RStrip(SubSeq(s, 1, Len(s) - 1), chars) ELSE s

\* s.strip(chars)
Strip(s, chars) == RStrip(LStrip(s, chars), chars)

Whitespace == {" "}

UpperToLower == [c \in {"L", "O", "C", "K", "E", "D", "U", "N", "B", "P"} |->
    CASE c = "L" -> "l" [] c = "O" -> "o" [] c = "C" -> "c" [] c = "K" -> "k"
      [] c = "E" -> "e" [] c = "D" -> "d" [] c = "U" -> "u" [] c = "N" -> "n"
      [] c = "B" -> "b" [] c = "P" -> "p"]

LowerChar(c) == IF c \in DOMAIN UpperToLower THEN UpperToLower[c] ELSE c

\* s.lower() / str.casefold on the model's alphabet
Lower(s) == [i \in 1..Len(s) |-> LowerChar(s[i])]

CharOrder == <<" ", "!", "#", "/", "1", "2", "3", "B", "P", "a", "b", "c", "d", "o", "p", "r",
               "s", "w">>

CharCode(c) == IF c \in Range(CharOrder)
               THEN CHOOSE i \in 1..Len(CharOrder) : CharOrder[i] = c
               ELSE Len(CharOrder) + 1

RECURSIVE StrLess(_, _)
\* a < b for Python strings (code point order)
StrLess(a, b) ==
    IF b = <<>> THEN FALSE
    ELSE IF a = <<>> THEN TRUE
    ELSE IF Head(a) # Head(b) THEN CharCode(Head(a)) < CharCode(Head(b))
    ELSE StrLess(Tail(a), Tail(b))

----------------------------------------------------------------------------
(* unique and read_array *)

RECURSIVE InsertSorted(_, _)
\* insertion keeping equal keys in their original order (sorted is stable)
InsertSorted(sorted, x) ==
    IF sorted = <<>> THEN <<x>>
    ELSE IF StrLess(Lower(x), Lower(Head(sorted))) THEN <<x>> \o sorted
    ELSE <<Head(sorted)>> \o InsertSorted(Tail(sorted), x)

RECURSIVE SortCasefold(_)
\* sorted(array, key = str.casefold, reverse = False)
SortCasefold(array) ==
    IF array = <<>> THEN <<>>
    ELSE InsertSorted(SortCasefold(SubSeq(array, 1, Len(array) - 1)), array[Len(array)])

RECURSIVE Dedup(_, _)
\* [x for x in sequence if not (x in seen or seen.add(x))]
Dedup(sequence, seen) ==
    IF sequence = <<>> THEN <<>>
    ELSE IF Head(sequence) \in seen THEN Dedup(Tail(sequence), seen)
    ELSE <<Head(sequence)>> \o Dedup(Tail(sequence), seen \cup {Head(sequence)})

\* a unique that keeps every element
UniqueKeepAll(sequence, sort) == sequence

\* a unique that drops one repeat of the first element in each pass
UniqueOneRepeat(sequence, sort) ==
    IF sequence # <<>> /\ Head(sequence) \in Range(Tail(sequence)) THEN Tail(sequence)
    ELSE sequence

unique(sequence, sort) ==
    LET array == Dedup(sequence, {})
    IN  IF sort /\ array # <<>> THEN SortCasefold(array) ELSE array

RECURSIVE StripLines(_)
\* for line in stream: line = line.strip(); if line: array.append(line)
StripLines(lines) ==
    IF lines = <<>> THEN <<>>
    ELSE LET line == Strip(Head(lines), Whitespace)
         IN  (IF line # <<>> THEN <<line>> ELSE <<>>) \o StripLines(Tail(lines))

\* a read_array that sorts whatever the caller asks
ReadArraySorted(f, sort) ==
    unique(IF f.kind = "file" /\ f.lines # <<>> THEN StripLines(f.lines) ELSE <<>>, TRUE)

\* f is the file the path names: [kind, lines]; a missing, unreadable or empty
\* file yields the empty array
read_array(f, sort) ==
    LET array == IF f.kind = "file" /\ f.lines # <<>> THEN StripLines(f.lines) ELSE <<>>
    IN  unique(array, sort)

----------------------------------------------------------------------------
(* Sandbox.settings and the texts the flows use *)

DotHtml       == <<".", "h", "t", "m", "l">>
home_page     == <<"h", "o", "m", "e">> \o DotHtml
\* a fragment that locks nothing
LockFragmentOther == <<"#", "l", "o", "g">>
LockFragment  == <<"#", "l", "o", "c", "k">>
StrLocked     == <<"l", "o", "c", "k", "e", "d">>
StrUnlocked   == <<"u", "n">> \o StrLocked
SchemeSep     == <<":", "/", "/">>

\* the methods getattr(self.sandbox, self.test) resolves
Methods == {"open", "create", "existing", "unlock", "unlock_brute_force", "idle_lock",
            "access_control"}

\* MyParser.tests: the names the command line accepts for -t
ParserTests == {"open", "create", "existing", "unlock", "brute_force_unlock",
                "idle_lock", "access_control"}

\* get_extra_value(value = v): the non-numeric branch returns the value as is
get_extra_value(v) == v

----------------------------------------------------------------------------
(* The target catalog of access_control *)

\* page.split(".html", 1)[0].strip("/")
PageStem(p) == Strip(SplitHead(p, DotHtml), {"/"})

\* fragment.rsplit("#", 1)[-1].strip("/")
FragmentStem(f) == Strip(RSplitLast(f, <<"#">>), {"/"})

RECURSIVE FragmentPaths(_, _)
\* for fragment in fragments: ... paths.append(f"{page}#{fragment}")
FragmentPaths(p, fragments) ==
    IF fragments = <<>> THEN <<>>
    ELSE LET fragment == FragmentStem(Head(fragments))
         IN  (IF fragment # <<>> THEN <<p \o <<"#">> \o fragment>> ELSE <<>>)
             \o FragmentPaths(p, Tail(fragments))

RECURSIVE CrossProduct(_, _)
\* for page in pages: ... paths.append(page); the fragments of the page
CrossProduct(pages, fragments) ==
    IF pages = <<>> THEN <<>>
    ELSE LET stem == PageStem(Head(pages))
             p    == <<"/">> \o stem \o DotHtml
         IN  (IF stem # <<>> THEN <<p>> \o FragmentPaths(p, fragments) ELSE <<>>)
             \o CrossProduct(Tail(pages), fragments)

\* a catalog that keeps repeated entries
BuildPathsRepeated(pages, fragments) == CrossProduct(pages, fragments)

\* paths = unique(paths)
BuildPaths(pages, fragments) == unique(CrossProduct(pages, fragments), FALSE)

----------------------------------------------------------------------------
(* Addresses *)

\* array = url.split("://", 1); f"{array[0]}://{array[1].split('/', 1)[0]}"
BaseOf(url) ==
    SplitHead(url, SchemeSep) \o SchemeSep \o SplitHead(SplitRest(url, SchemeSep), <<"/">>)

\* __goto_browser_extension: f"{url_base}/{path.lstrip('/')}", the home page by default
\* an address built without path.lstrip('/')
ExtensionUrlNoStrip(base, path) ==
    base \o <<"/">> \o (IF path = <<>> THEN home_page ELSE path)

ExtensionUrl(base, path) ==
    LET p == IF path = <<>> THEN home_page ELSE path
    IN  base \o <<"/">> \o LStrip(p, {"/"})

\* print_alert(f"... URL: {self.settings['url_base']}{path}")
ReportUrl(base, path) == base \o path

----------------------------------------------------------------------------
(* What a page shows: the visibility of the affordances the flows probe *)

View(c, u, r, t, b, p) ==
    [create |-> c, unlock |-> u, root |-> r, text |-> t, balance |-> b, popover |-> p]

BlankView == View(FALSE, FALSE, FALSE, 0, FALSE, FALSE)

\* __is_visible(page, "button", "create a new wallet")
CreateVisible(v) == v.create

\* __is_visible(page, "button", "unlock")
UnlockVisible(v) == v.unlock

\* a creation gate that takes every wallet for created
CreatedAlways(v) == TRUE

\* __created
created(v) == ~CreateVisible(v)

\* a lock probe that also consults the balance
LockedUnlessBalance(v) == UnlockVisible(v) /\ ~v.balance

\* __locked
locked(v) == UnlockVisible(v)

\* the wallet state as the flows read it: the creation gate first, then the lock probe
Oracle(v) ==
    IF ~created(v) THEN "NotCreated"
    ELSE IF locked(v) THEN "Locked"
    ELSE "Unlocked"

----------------------------------------------------------------------------
(* The wallet extension and the browser, as the flows drive them.          *)
(* The extension is a black box to the program: its home page shows the    *)
(* create button iff no wallet exists and the unlock button iff the wallet *)
(* is locked, the address #lock locks it, the right password unlocks it,   *)
(* and what any other fragment renders is not known in advance.            *)

WalletStates == {"NotCreated", "Locked", "Unlocked"}

\* the home page of a wallet in state w
Render(w) ==
    CASE w = "NotCreated" -> View(TRUE, FALSE, TRUE, 1, FALSE, FALSE)
      [] w = "Locked"     -> View(FALSE, TRUE, TRUE, 1, FALSE, FALSE)
      [] w = "Unlocked"   -> View(FALSE, FALSE, TRUE, 1, TRUE, FALSE)

\* what a fragment of the extension may render
TargetViews ==
    {View(FALSE, u, r, t, b, FALSE) : u \in BOOLEAN, r \in BOOLEAN, t \in 0..MaxSize, b \in BOOLEAN}

HasFragment(path) == Occurrences(path, <<"#">>) # {}

IsLockPath(path) == HasFragment(path) /\ RSplitLast(path, <<"#">>) = <<"l", "o", "c", "k">>

WalletAfterGoto(w, path) == IF IsLockPath(path) /\ w = "Unlocked" THEN "Locked" ELSE w

ViewsAfterGoto(w, path) ==
    IF ~HasFragment(path) \/ IsLockPath(path) THEN {Render(w)} ELSE TargetViews

\* the unlock button pressed with `typed` in the password field
WalletAfterUnlock(w, typed) == IF w = "Locked" /\ typed = truePassword THEN "Unlocked" ELSE w

ViewsAfterUnlock(w) ==
    IF w = "Unlocked" THEN {[Render(w) EXCEPT !.popover = p] : p \in BOOLEAN} ELSE {Render(w)}

\* a page as context.new_page() returns it: blank, with no event handler on it
NewTab == [open |-> TRUE, url |-> <<>>, view |-> BlankView, typed |-> <<>>, handlers |-> {}]

----------------------------------------------------------------------------
(* The coroutine on the event loop *)

\* run_until_complete is running the loop: for the coroutine it was given, or,
\* in the finally block, for browser_stop while an interrupted coroutine is
\* still pending on the same loop
CanStep ==
    \/ task = "running" /\ rpc \in {"start", "flow"}
    \/ task = "orphan" /\ rpc \in {"stop_close", "stop_playwright"}

\* a browser action can be issued
CanAct == CanStep /\ context = "open"

\* an entry of the log of browser actions: the operation, the page, the
\* affordance, the text sent or the address, and what a probe answered
Ev(op, t, what, text, vis, n) ==
    [op |-> op, tab |-> t, what |-> what, text |-> text, vis |-> vis, n |-> n]

\* the positions of browser_start
StartLabels == {"bs_playwright", "bs_launch", "bs_grant", "bs_url"}

\* a browser action is issued: it is logged, and noted when it is the selected
\* flow's and browser_stop was already invoked
Act(e) ==
    /\ log' = Append(log, e)
    /\ lateActions' = (lateActions \/ (stopInvoked > 0 /\ pc \notin StartLabels))

\* a line is printed: its kind (print_info, print_alert, print_error), what it
\* says, and how many browser actions had been issued when it was printed
Say(kind, msg, text, n) ==
    [kind |-> kind, msg |-> msg, text |-> text, n |-> n, at |-> Len(log)]

Return ==
    /\ task' = IF task = "orphan" THEN "orphan_done" ELSE "returned"
    /\ pc' = "done"
    /\ ret' = <<>>
    /\ texc' = texc

\* the awaited action's exception is swallowed and the action awaited again
RaiseRetry(kind) ==
    /\ task' = task
    /\ texc' = kind
    /\ pc' = pc
    /\ ret' = ret

Raise(kind) ==
    /\ task' = IF task = "orphan" THEN "orphan_done" ELSE "raised"
    /\ texc' = kind
    /\ pc' = pc
    /\ ret' = ret

\* a wait that sleeps the override on top of the configured wait time
SleepTimeAdded(override) ==
    IF override > 0 THEN override + wait_time
    ELSE IF wait_time > 0 THEN wait_time
    ELSE 0

\* __wait(page, override): the fixed delay it sleeps, 0 for none
SleepTime(override) ==
    IF override > 0 THEN override
    ELSE IF wait_time > 0 THEN wait_time
    ELSE 0

\* a submit or load that does not wait for the page to settle
EnterNoWait(after) ==
    /\ pc' = after
    /\ ret' = ret
    /\ task' = task
    /\ texc' = texc

\* enter __wait(page) and continue at `after`
EnterWait(after) ==
    /\ pc' = IF SleepTime(-1) > 0 THEN "wait_sleep" ELSE "wait_load"
    /\ ret' = <<after>> \o ret
    /\ task' = task
    /\ texc' = texc

Continue(after) ==
    /\ pc' = after
    /\ ret' = ret
    /\ task' = task
    /\ texc' = texc

\* page.goto(url) of __goto, on tab t
PageGoto(t, path) ==
    /\ wallet' = WalletAfterGoto(wallet, path)
    /\ \E v \in ViewsAfterGoto(wallet', path) :
         tabs' = [tabs EXCEPT ![t] = [open |-> TRUE, url |-> ExtensionUrl(url_base, path),
                                      view |-> v, typed |-> <<>>,
                                      handlers |-> tabs[t].handlers]]
    /\ Act(Ev("goto", t, "", ExtensionUrl(url_base, path), FALSE, 0))

\* await asyncio.sleep(...) of __wait
WaitSleep ==
    /\ CanStep
    /\ pc = "wait_sleep"
    /\ Continue("wait_load")
    /\ log' = Append(log, Ev("sleep", 0, "", <<>>, FALSE, SleepTime(-1)))
    /\ UNCHANGED <<inputs, env, wallet, sandbox, runner, locals, tabs, console, evals,
                   stopInvoked, lateActions, pure>>

\* await page.wait_for_load_state(...) of __wait
WaitLoad ==
    /\ CanAct
    /\ pc = "wait_load"
    /\ IF Head(ret) = "return" THEN Return
       ELSE /\ pc' = Head(ret)
            /\ ret' = Tail(ret)
            /\ UNCHANGED <<task, texc>>
    /\ Act(Ev("load", 0, "", <<>>, FALSE, 0))
    /\ UNCHANGED <<inputs, env, wallet, sandbox, runner, locals, tabs, console, evals,
                   stopInvoked, pure>>

----------------------------------------------------------------------------
(* Sandbox.browser_start and Sandbox.browser_stop *)

\* the address the extension's background context registers under
WorkerUrl == <<"e", ":", "/", "/", "x", "/", "b">>

\* self.playwright = await async_playwright().start()
BsPlaywright ==
    /\ CanStep
    /\ pc = "bs_playwright"
    /\ playwright' = "started"
    /\ Continue("bs_launch")
    /\ UNCHANGED <<inputs, env, wallet, context, url_base, runner, locals, tabs, observed,
                   stopInvoked, lateActions, pure>>

\* self.context = await browsers[self.browser].launch_persistent_context(...):
\* with a proxy the argument { "server": self.__proxy } reads an attribute
\* that is never set
BsLaunch ==
    /\ CanStep
    /\ pc = "bs_launch"
    /\ IF proxy # <<>>
       THEN /\ Raise("AttributeError")
            /\ UNCHANGED <<context, tabs, log, lateActions>>
       ELSE /\ context' = "open"
            /\ tabs' = <<NewTab>>
            /\ Act(Ev("launch", 0, "", proxy, FALSE, 0))
            /\ Continue("bs_grant")
    /\ UNCHANGED <<inputs, env, wallet, playwright, url_base, runner, locals, console, evals,
                   stopInvoked, pure>>

\* await self.context.grant_permissions(["camera"]); set_default_timeout
BsGrant ==
    /\ CanAct
    /\ pc = "bs_grant"
    /\ Act(Ev("grant", 0, "camera", <<>>, FALSE, 0))
    /\ Continue("bs_url")
    /\ UNCHANGED <<inputs, env, wallet, sandbox, runner, locals, tabs, console, evals,
                   stopInvoked, pure>>

\* __get_url and the base address; print_info("Running a ... sandbox...")
BsUrl ==
    /\ CanAct
    /\ pc = "bs_url"
    /\ IF manifest = "bad"
       THEN /\ Raise("OtherError")
            /\ UNCHANGED <<url_base, console, log, lateActions>>
       ELSE /\ url_base' = BaseOf(WorkerUrl)
            /\ console' = Append(console, Say("info", "running", <<>>, 0))
            /\ Act(Ev("worker", 0, manifest, WorkerUrl, FALSE, 0))
            /\ Return
    /\ UNCHANGED <<inputs, env, wallet, playwright, context, runner, locals, tabs,
                   evals, stopInvoked, pure>>

----------------------------------------------------------------------------
(* Test.__get_environment, for the chromium browser.  setup holds what the *)
(* command line gave and what the file system holds: the session directory *)
(* (absent, old: there before the run, new: made by the run, removed), the *)
(* directory given with -e, the copy of the extension inside the session   *)
(* directory (destination: as the run found it, copy: as it is now), and   *)
(* the extension auto-location finds.  An extension                        *)
(* directory is missing, nomanifest, unparsable (it has a manifest.json    *)
(* that json.loads rejects or that lacks manifest_version), v2 or v3.      *)

\* directory_has_manifest(directory)
directory_has_manifest(d) == d \notin {"missing", "nomanifest"}

\* directory_create(session): the directory afterwards, for one that is absent
DirectoryCreate(e) == IF e.session = "absent" /\ e.mkdirOk THEN "new" ELSE e.session

\* directory_copy(source, destination): whether it succeeds
directory_copy(e, source) ==
    /\ source # "missing"
    /\ e.copy # "absent" => (e.copy # "file" /\ e.confirm)
    /\ e.copyOk

\* directory_copy(source, destination): the destination afterwards
DestinationAfterCopy(e, source) ==
    IF source = "missing" \/ e.copy = "file" THEN e.copy
    ELSE IF e.copy # "absent" /\ ~e.confirm THEN e.copy
    ELSE IF e.copyOk THEN source
    ELSE "absent"

\* what __get_url will read from the extension the sandbox is given
ManifestOf(d) == IF d \in {"v2", "v3"} THEN d ELSE "bad"

\* if not session: session = directory_create_tmp() else: success = directory_create(session)
EnvSession ==
    /\ rpc = "try"
    /\ setup.step = "session"
    /\ setup' = [setup EXCEPT
                   !.step = "extension",
                   !.session = IF ~setup.sessionArg THEN "new" ELSE DirectoryCreate(setup),
                   !.success = ~setup.sessionArg \/ DirectoryCreate(setup) # "absent"]
    /\ console' = IF ~setup.sessionArg
                  THEN console \o <<Say("info", "session_created", <<>>, 0),
                                    Say("info", "session_hint", <<>>, 0)>>
                  ELSE IF DirectoryCreate(setup) = "absent"
                  THEN Append(console, Say("error", "cannot_create", <<>>, 0))
                  ELSE console
    /\ UNCHANGED <<inputs, given, ui, wallet, sandbox, runner, task, pc, ret, texc, locals, tabs,
                   log, evals, stopInvoked, lateActions, pure>>

\* if success: the extension given is checked and copied, or the copy of an
\* earlier run is reused, or the extension is located and copied
EnvExtension ==
    /\ rpc = "try"
    /\ setup.step = "extension"
    /\ IF ~setup.success
       THEN setup' = [setup EXCEPT !.step = "finish"]
       ELSE IF setup.extension # "none"
       THEN setup' = [setup EXCEPT
                        !.step = "finish",
                        !.success = /\ directory_has_manifest(setup.extension)
                                    /\ directory_copy(setup, setup.extension),
                        !.copy = IF directory_has_manifest(setup.extension)
                                        THEN DestinationAfterCopy(setup, setup.extension)
                                        ELSE setup.copy]
       ELSE IF setup.copy # "absent"
       THEN setup' = [setup EXCEPT !.step = "finish"]
       ELSE setup' = [setup EXCEPT
                        !.step = "finish",
                        !.success = setup.located # "none" /\ directory_copy(setup, setup.located),
                        !.copy = IF setup.located # "none"
                                        THEN DestinationAfterCopy(setup, setup.located)
                                        ELSE setup.copy]
    /\ console' = IF setup'.success \/ ~setup.success THEN console
                  ELSE Append(console, Say("error", "extension", <<>>, 0))
    /\ UNCHANGED <<inputs, given, ui, wallet, sandbox, runner, task, pc, ret, texc, locals, tabs,
                   log, evals, stopInvoked, lateActions, pure>>

\* if not success: directory_remove(session); exit(); otherwise
\* return session, destination: the sandbox is given the copy
EnvFinish ==
    /\ rpc = "try"
    /\ setup.step = "finish"
    /\ IF ~setup.success
       THEN /\ setup' = [setup EXCEPT
                           !.step = "exit",
                           !.session = IF setup.session = "absent" THEN "absent" ELSE "removed",
                           !.copy = "absent"]
            /\ console' = Append(console, Say("info", "removing_session", <<>>, 0))
            /\ rpc' = "config_exit"
            /\ manifest' = manifest
       ELSE /\ setup' = [setup EXCEPT !.step = "done"]
            /\ console' = console
            /\ rpc' = rpc
            /\ manifest' = ManifestOf(setup.copy)
    /\ UNCHANGED <<test, value, password, wait_time, proxy, file, truePassword,
                   pagesIn, fragmentsIn, ui, wallet, sandbox, exc, loop, task, pc, ret, texc,
                   locals, tabs, log, evals, stopInvoked, lateActions, pure>>

----------------------------------------------------------------------------
(* Test.run *)

\* the exceptions the except clause of Test.run names
Caught == {"PlaywrightError", "KeyboardInterrupt"}

\* print_info("Press CTRL + C to exit early"); run_until_complete(browser_start())
RunBegin ==
    /\ setup.step = "done"
    /\ rpc = "try"
    /\ rpc' = "start"
    /\ task' = "running"
    /\ pc' = "bs_playwright"
    /\ UNCHANGED <<inputs, env, wallet, sandbox, exc, loop, ret, texc, locals, tabs,
                   observed, stopInvoked, lateActions, pure>>

\* browser_start returned: getattr(self.sandbox, self.test)(value = self.value)
RunStartDone ==
    /\ rpc = "start"
    /\ task = "returned"
    /\ IF test \in Methods
       THEN /\ rpc' = "flow"
            /\ task' = "running"
            /\ pc' = "new_page"
            /\ exc' = exc
       ELSE /\ rpc' = "finally"
            /\ task' = "none"
            /\ pc' = pc
            /\ exc' = "AttributeError"
    /\ UNCHANGED <<inputs, env, wallet, sandbox, loop, ret, texc, locals, tabs,
                   observed, stopInvoked, lateActions, pure>>

\* the flow returned: print_action("Done, press any key to exit...")
RunFlowDone ==
    /\ rpc = "flow"
    /\ task = "returned"
    /\ rpc' = "prompt"
    /\ UNCHANGED <<inputs, env, wallet, sandbox, exc, loop, task, pc, ret, texc, locals, tabs,
                   observed, stopInvoked, lateActions, pure>>

\* the operator answers the prompt
RunPrompt ==
    /\ rpc = "prompt"
    /\ rpc' = "finally"
    /\ UNCHANGED <<inputs, env, wallet, sandbox, exc, loop, task, pc, ret, texc, locals, tabs,
                   observed, stopInvoked, lateActions, pure>>

\* the coroutine raised: run_until_complete re-raises it in the try block
RunRaised ==
    /\ rpc \in {"start", "flow"}
    /\ task = "raised"
    /\ exc' = texc
    /\ rpc' = "finally"
    /\ UNCHANGED <<inputs, env, wallet, sandbox, loop, task, pc, ret, texc, locals, tabs,
                   observed, stopInvoked, lateActions, pure>>

\* CTRL + C while run_until_complete runs the coroutine: KeyboardInterrupt is
\* raised where the main thread is, either in the loop's selector (the
\* coroutine stays pending on the loop) or inside the coroutine's step (it ends)
Interrupt ==
    /\ rpc \in {"start", "flow"}
    /\ task = "running"
    /\ exc' = "KeyboardInterrupt"
    /\ rpc' = "finally"
    /\ \/ task' = "orphan" /\ texc' = texc
       \/ task' = "raised" /\ texc' = "KeyboardInterrupt"
    /\ UNCHANGED <<inputs, env, wallet, sandbox, loop, pc, ret, locals, tabs,
                   observed, stopInvoked, lateActions, pure>>

\* CTRL + C at the prompt
InterruptPrompt ==
    /\ rpc = "prompt"
    /\ exc' = "KeyboardInterrupt"
    /\ rpc' = "finally"
    /\ UNCHANGED <<inputs, env, wallet, sandbox, loop, task, pc, ret, texc, locals, tabs,
                   observed, stopInvoked, lateActions, pure>>

\* finally: run_until_complete(browser_stop()); browser_stop begins with
\* self.context.close(), an attribute of None when no context was launched
RunStopBegin ==
    /\ rpc = "finally"
    /\ stopInvoked' = stopInvoked + 1
    /\ IF context = "None"
       THEN /\ rpc' = "exited"
            /\ exc' = "AttributeError"
       ELSE /\ rpc' = "stop_close"
            /\ exc' = exc
    /\ UNCHANGED <<inputs, env, wallet, sandbox, loop, task, pc, ret, texc, locals, tabs,
                   observed, lateActions, pure>>

\* await self.context.close() completes
RunStopClose ==
    /\ rpc = "stop_close"
    /\ context' = "closed"
    /\ tabs' = [t \in DOMAIN tabs |-> [tabs[t] EXCEPT !.open = FALSE]]
    /\ rpc' = "stop_playwright"
    /\ UNCHANGED <<inputs, env, wallet, playwright, url_base, exc, loop, task, pc, ret, texc,
                   locals, observed, stopInvoked, lateActions, pure>>

\* await self.playwright.stop() completes
RunStopPlaywright ==
    /\ rpc = "stop_playwright"
    /\ playwright' = "stopped"
    /\ rpc' = "loop_close"
    /\ UNCHANGED <<inputs, env, wallet, context, url_base, exc, loop, task, pc, ret, texc,
                   locals, tabs, observed, stopInvoked, lateActions, pure>>

\* self.event_loop.stop(); self.event_loop.close()
RunLoopClose ==
    /\ rpc = "loop_close"
    /\ loop' = "closed"
    /\ rpc' = "exited"
    /\ UNCHANGED <<inputs, env, wallet, sandbox, exc, task, pc, ret, texc, locals, tabs,
                   observed, stopInvoked, lateActions, pure>>

----------------------------------------------------------------------------
(* The opening of every flow, and Sandbox.open *)

\* where a flow continues after its home page has loaded
AfterHome ==
    CASE test = "open"               -> "return"
      [] test = "create"             -> "cr_is_not_created"
      [] test = "existing"           -> "ex_is_not_created"
      [] test = "unlock"             -> "un_is_created"
      [] test = "unlock_brute_force" -> "ubf_is_created"
      [] test = "idle_lock"          -> "il_is_created"
      [] test = "access_control"     -> "ac_is_created"

\* page = await self.__new_page()
FlowNewPage ==
    /\ CanAct
    /\ pc = "new_page"
    /\ tabs' = Append(tabs, NewTab)
    /\ page' = Len(tabs) + 1
    /\ Act(Ev("new_page", Len(tabs) + 1, "", <<>>, FALSE, 0))
    /\ Continue("goto_home")
    /\ UNCHANGED <<inputs, env, wallet, sandbox, runner, wordlist, idx, state, paths, success,
                   tmp, size, console, evals, stopInvoked, pure>>

\* await self.__goto_browser_extension(page)
FlowGotoHome ==
    /\ CanAct
    /\ pc = "goto_home"
    /\ PageGoto(page, <<>>)
    /\ EnterWait(AfterHome)
    /\ UNCHANGED <<inputs, env, sandbox, runner, locals, console, evals,
                   stopInvoked, pure>>

----------------------------------------------------------------------------
(* The building blocks the flows share *)

\* continue at a label, or return from the flow
Resume(label) == IF label = "return" THEN Return ELSE Continue(label)

\* call __lock or __unlock and continue at `after`
Call(entry, after) ==
    /\ pc' = entry
    /\ ret' = <<after>> \o ret
    /\ task' = task
    /\ texc' = texc

\* return from __lock or __unlock
Pop ==
    IF Head(ret) = "return" THEN Return
    ELSE /\ pc' = Head(ret)
         /\ ret' = Tail(ret)
         /\ task' = task
         /\ texc' = texc

\* __wait as the last statement of __lock or __unlock
WaitThenPop ==
    /\ pc' = IF SleepTime(-1) > 0 THEN "wait_sleep" ELSE "wait_load"
    /\ UNCHANGED <<ret, task, texc>>

\* __is_visible(page, css, text) on tab t
Probe(t, what, vis) == Act(Ev("visible", t, what, <<>>, vis, 0))

\* __fill_password_submit: if not password: password = self.settings["password"]
FillValue(pw) == IF pw = <<>> THEN password ELSE pw

\* await self.__fill(page, password, css_password): the field is on the lock screen
FillPassword(t, pw) ==
    /\ tabs' = [tabs EXCEPT ![t].typed = pw]
    /\ Act(Ev("fill", t, "password", pw, FALSE, 0))

\* the click of __submit(page, "button", "unlock")
ClickUnlock(t) ==
    /\ wallet' = WalletAfterUnlock(wallet, tabs[t].typed)
    /\ \E v \in ViewsAfterUnlock(wallet') :
         tabs' = [tabs EXCEPT ![t].view = v, ![t].typed = <<>>]
    /\ Act(Ev("click", t, "unlock", tabs[t].typed, FALSE, 0))

\* a __lock that navigates when the wallet is already locked
LockNavigatesWhenLocked(v) == locked(v)

\* __lock: the navigation is issued if not await self.__locked(page)
LockNavigates(v) == ~locked(v)

\* __lock: if not await self.__locked(page)
LockProbe ==
    /\ CanAct
    /\ pc = "lock_probe"
    /\ Probe(page, "unlock", UnlockVisible(tabs[page].view))
    /\ IF LockNavigates(tabs[page].view) THEN Continue("lock_goto") ELSE Pop
    /\ UNCHANGED <<inputs, env, wallet, sandbox, runner, locals, tabs, console, evals,
                   stopInvoked, pure>>

\* __lock: await self.__goto_browser_extension(page, f"{home_page}#lock")
LockGoto ==
    /\ CanAct
    /\ pc = "lock_goto"
    /\ PageGoto(page, home_page \o LockFragment)
    /\ WaitThenPop
    /\ UNCHANGED <<inputs, env, sandbox, runner, locals, console, evals, stopInvoked, pure>>

\* __unlock: if await self.__locked(page)
UnlockProbe ==
    /\ CanAct
    /\ pc = "unlock_probe"
    /\ Probe(page, "unlock", UnlockVisible(tabs[page].view))
    /\ IF locked(tabs[page].view) THEN Continue("unlock_fill") ELSE Pop
    /\ UNCHANGED <<inputs, env, wallet, sandbox, runner, locals, tabs, console, evals,
                   stopInvoked, pure>>

\* an unlock that passes no password on
UnlockArgNone == <<>>

\* the password __unlock is called with: unlock passes the extra value,
\* idle_lock and access_control pass none
UnlockArg == IF test = "unlock" THEN get_extra_value(value) ELSE <<>>

\* __unlock: __fill_password_submit(page, password, "button", "unlock"), the fill
UnlockFill ==
    /\ CanAct
    /\ pc = "unlock_fill"
    /\ tabs[page].view.unlock
    /\ FillPassword(page, FillValue(UnlockArg))
    /\ Continue("unlock_click")
    /\ UNCHANGED <<inputs, env, wallet, sandbox, runner, locals, console, evals,
                   stopInvoked, pure>>

\* __unlock: __fill_password_submit(page, password, "button", "unlock"), the submit
UnlockClick ==
    /\ CanAct
    /\ pc = "unlock_click"
    /\ tabs[page].view.unlock
    /\ ClickUnlock(page)
    /\ EnterWait("unlock_popover")
    /\ UNCHANGED <<inputs, env, sandbox, runner, locals, console, evals, stopInvoked, pure>>

\* __unlock: if await self.__is_visible(page, "button[data-testid=popover-close]")
UnlockPopover ==
    /\ CanAct
    /\ pc = "unlock_popover"
    /\ Probe(page, "popover", tabs[page].view.popover)
    /\ IF tabs[page].view.popover THEN Continue("unlock_popover_close") ELSE Pop
    /\ UNCHANGED <<inputs, env, wallet, sandbox, runner, locals, tabs, console, evals,
                   stopInvoked, pure>>

\* __unlock: await self.__submit(page, "button[data-testid=popover-close]")
UnlockPopoverClose ==
    /\ CanAct
    /\ pc = "unlock_popover_close"
    /\ tabs[page].view.popover
    /\ tabs' = [tabs EXCEPT ![page].view.popover = FALSE]
    /\ Act(Ev("click", page, "popover", <<>>, FALSE, 0))
    /\ WaitThenPop
    /\ UNCHANGED <<inputs, env, wallet, sandbox, runner, locals, console, evals,
                   stopInvoked, pure>>

----------------------------------------------------------------------------
(* Sandbox.unlock_brute_force *)

\* if await self.__is_created(page): await self.__lock(page)
UbfIsCreated ==
    /\ CanAct
    /\ pc = "ubf_is_created"
    /\ Probe(page, "create", CreateVisible(tabs[page].view))
    /\ IF created(tabs[page].view)
       THEN /\ Call("lock_probe", "ubf_wordlist")
            /\ console' = console
       ELSE /\ console' = Append(console, Say("error", "not_created", <<>>, 0))
            /\ Return
    /\ UNCHANGED <<inputs, env, wallet, sandbox, runner, locals, tabs, evals, stopInvoked, pure>>

\* wordlist = get_extra_value(**kwargs); the error, or read_array and the count
UbfWordlist ==
    /\ CanStep
    /\ pc = "ubf_wordlist"
    /\ IF get_extra_value(value) = <<>>
       THEN /\ console' = Append(console, Say("error", "wordlist_required", <<>>, 0))
            /\ UNCHANGED <<wordlist, idx>>
            /\ Return
       ELSE /\ wordlist' = read_array(file, FALSE)
            /\ console' = Append(console, Say("info", "words_loaded", <<>>, Len(wordlist')))
            /\ idx' = 1
            /\ Resume(IF wordlist' = <<>> THEN "return" ELSE "ubf_fill")
    /\ UNCHANGED <<inputs, env, wallet, sandbox, runner, page, state, paths, success, tmp, size,
                   tabs, log, evals, stopInvoked, lateActions, pure>>

\* for password in wordlist: __fill_password_submit(page, password, ...), the fill
UbfFill ==
    /\ CanAct
    /\ pc = "ubf_fill"
    /\ tabs[page].view.unlock
    /\ FillPassword(page, FillValue(wordlist[idx]))
    /\ Continue("ubf_click")
    /\ UNCHANGED <<inputs, env, wallet, sandbox, runner, locals, console, evals,
                   stopInvoked, pure>>

\* __fill_password_submit(page, password, "button", "unlock"), the submit
UbfClick ==
    /\ CanAct
    /\ pc = "ubf_click"
    /\ tabs[page].view.unlock
    /\ ClickUnlock(page)
    /\ EnterWait("ubf_check")
    /\ UNCHANGED <<inputs, env, sandbox, runner, locals, console, evals, stopInvoked, pure>>

\* a loop without the break
UbfAfterCheckNoBreak(isLocked, i, n) == IF i < n THEN "ubf_fill" ELSE "return"

\* where the loop goes after the oracle's answer to attempt i of n:
\* if not locked: ... break; otherwise the next candidate, if any
UbfAfterCheck(isLocked, i, n) ==
    IF ~isLocked THEN "return"
    ELSE IF i < n THEN "ubf_fill"
    ELSE "return"

\* if not await self.__locked(page): print_alert(f"Unlocked: {password}"); break
UbfCheck ==
    /\ CanAct
    /\ pc = "ubf_check"
    /\ Probe(page, "unlock", UnlockVisible(tabs[page].view))
    /\ IF ~locked(tabs[page].view)
       THEN /\ console' = Append(console, Say("alert", "unlocked", wordlist[idx], 0))
            /\ idx' = idx
       ELSE /\ console' = console
            /\ idx' = idx + 1
    /\ Resume(UbfAfterCheck(locked(tabs[page].view), idx, Len(wordlist)))
    /\ UNCHANGED <<inputs, env, wallet, sandbox, runner, page, wordlist, state, paths, success,
                   tmp, size, tabs, evals, stopInvoked, pure>>

----------------------------------------------------------------------------
(* Sandbox.access_control *)

\* a loop that ends at the first target it flags
LoopHeadStopAtLeak(i, succ, pths) ==
    IF i > Len(pths) \/ (succ /\ i > 1) THEN (IF ~succ THEN "ac_close" ELSE "return")
    ELSE IF succ THEN "ac_new_tmp"
    ELSE "ac_goto"

\* a loop that leaves its last page open whatever it found
LoopHeadNoClose(i, succ, pths) ==
    IF i > Len(pths) THEN "return"
    ELSE IF succ THEN "ac_new_tmp"
    ELSE "ac_goto"

\* a loop that opens a page for every target
LoopHeadAlwaysNew(i, succ, pths) ==
    IF i > Len(pths) THEN (IF ~succ THEN "ac_close" ELSE "return")
    ELSE "ac_new_tmp"

\* the head of `for path in paths`, and what follows the loop:
\* if not success: await self.__close(tmp)
LoopHead(i, succ, pths) ==
    IF i > Len(pths) THEN (IF ~succ THEN "ac_close" ELSE "return")
    ELSE IF succ THEN "ac_new_tmp"
    ELSE "ac_goto"

\* the verdict on the target the loop is at
Verdict(sz, flagged) ==
    [path |-> paths[idx], tab |-> tmp, view |-> tabs[tmp].view, size |-> sz, flagged |-> flagged]

\* size = ... if await self.__is_visible(tmp, "div[id=app-content]") else 0:
\* the text is read only when the root region is visible
ReadsText(rootVisible) == rootVisible

\* a size test that lets size 0 through
SizeBelowZero(sz) == sz < 0

\* the first disjunct of the `continue` condition: size < 1
SizeBelowOne(sz) == sz < 1

\* the guard the required state names: the unlock button, or the balance
GuardName == IF state = StrLocked THEN "unlock" ELSE "balance"

\* the guards of the two states exchanged
GuardVisibleSwapped(v) ==
    \/ state = StrLocked /\ v.balance
    \/ state = StrUnlocked /\ locked(v)

\* (state == "locked" and await self.__locked(tmp)) or (state == "unlocked" and
\* await self.__is_visible(tmp, "div[class=wallet-overview__balance]"))
GuardVisible(v) ==
    \/ state = StrLocked /\ locked(v)
    \/ state = StrUnlocked /\ v.balance

\* if await self.__is_created(page): state = get_extra_value(**kwargs).lower()
\* and the step that forces the state, or the error and return 0
AcIsCreated ==
    /\ CanAct
    /\ pc = "ac_is_created"
    /\ Probe(page, "create", CreateVisible(tabs[page].view))
    /\ IF ~created(tabs[page].view)
       THEN /\ console' = Append(console, Say("error", "not_created", <<>>, 0))
            /\ state' = state
            /\ Return
       ELSE /\ state' = Lower(get_extra_value(value))
            /\ IF state' = StrLocked THEN Call("lock_probe", "ac_build") /\ console' = console
               ELSE IF state' = StrUnlocked THEN Call("unlock_probe", "ac_build") /\ console' = console
               ELSE /\ console' = Append(console, Say("error", "state_required", <<>>, 0))
                    /\ Return
    /\ UNCHANGED <<inputs, env, wallet, sandbox, runner, page, wordlist, idx, paths, success,
                   tmp, size, tabs, evals, stopInvoked, pure>>

\* the catalog: paths = unique(paths), the two print_info, success = True
AcBuild ==
    /\ CanStep
    /\ pc = "ac_build"
    /\ paths' = BuildPaths(pagesIn, fragmentsIn)
    /\ console' = console \o <<Say("info", "state", state, 0),
                               Say("info", "urls", <<>>, Len(paths'))>>
    /\ success' = TRUE
    /\ idx' = 1
    /\ Resume(LoopHead(1, TRUE, paths'))
    /\ UNCHANGED <<inputs, env, wallet, sandbox, runner, page, wordlist, state, tmp, size,
                   tabs, log, evals, stopInvoked, lateActions, pure>>

\* if success: tmp = await self.__new_page()
AcNewTmp ==
    /\ CanAct
    /\ pc = "ac_new_tmp"
    /\ tabs' = Append(tabs, NewTab)
    /\ tmp' = Len(tabs) + 1
    /\ Act(Ev("new_page", Len(tabs) + 1, "", <<>>, FALSE, 0))
    /\ Continue("ac_goto")
    /\ UNCHANGED <<inputs, env, wallet, sandbox, runner, page, wordlist, idx, state, paths,
                   success, size, console, evals, stopInvoked, pure>>

\* success = False; await self.__goto_browser_extension(tmp, path)
AcGoto ==
    /\ CanAct
    /\ pc = "ac_goto"
    /\ success' = FALSE
    /\ PageGoto(tmp, paths[idx])
    /\ EnterWait("ac_root")
    /\ UNCHANGED <<inputs, env, sandbox, runner, page, wordlist, idx, state, paths, tmp, size,
                   console, evals, stopInvoked, pure>>

\* ... if await self.__is_visible(tmp, "div[id=app-content]") else 0
AcRoot ==
    /\ CanAct
    /\ pc = "ac_root"
    /\ Probe(tmp, "root", tabs[tmp].view.root)
    /\ IF ReadsText(tabs[tmp].view.root)
       THEN /\ Continue("ac_text")
            /\ UNCHANGED <<size, idx, evals>>
       ELSE /\ size' = 0
            /\ IF SizeBelowOne(0)
               THEN /\ evals' = Append(evals, Verdict(0, FALSE))
                    /\ idx' = idx + 1
                    /\ Resume(LoopHead(idx + 1, success, paths))
               ELSE /\ Continue("ac_guard")
                    /\ UNCHANGED <<idx, evals>>
    /\ UNCHANGED <<inputs, env, wallet, sandbox, runner, page, wordlist, state, paths, success,
                   tmp, tabs, console, stopInvoked, pure>>

\* size = await self.__get_size(tmp, "div[id=app-content]"); if size < 1: continue
AcText ==
    /\ CanAct
    /\ pc = "ac_text"
    /\ size' = tabs[tmp].view.text
    /\ Act(Ev("text", tmp, "root", <<>>, FALSE, size'))
    /\ IF SizeBelowOne(size')
       THEN /\ evals' = Append(evals, Verdict(size', FALSE))
            /\ idx' = idx + 1
            /\ Resume(LoopHead(idx + 1, success, paths))
       ELSE /\ Continue("ac_guard")
            /\ UNCHANGED <<idx, evals>>
    /\ UNCHANGED <<inputs, env, wallet, sandbox, runner, page, wordlist, state, paths, success,
                   tmp, tabs, console, stopInvoked, pure>>

\* the guard probe of the `continue` condition; without `continue`:
\* success = True and the alert
AcGuard ==
    /\ CanAct
    /\ pc = "ac_guard"
    /\ Probe(tmp, GuardName, GuardVisible(tabs[tmp].view))
    /\ IF GuardVisible(tabs[tmp].view)
       THEN /\ success' = success
            /\ console' = console
       ELSE /\ success' = TRUE
            /\ console' = Append(console, Say("alert", "leak", ReportUrl(url_base, paths[idx]), size))
    /\ evals' = Append(evals, Verdict(size, ~GuardVisible(tabs[tmp].view)))
    /\ idx' = idx + 1
    /\ Resume(LoopHead(idx + 1, success', paths))
    /\ UNCHANGED <<inputs, env, wallet, sandbox, runner, page, wordlist, state, paths,
                   tmp, size, tabs, stopInvoked, pure>>

\* if not success: await self.__close(tmp)
AcClose ==
    /\ CanAct
    /\ pc = "ac_close"
    /\ tabs' = [tabs EXCEPT ![tmp].open = FALSE]
    /\ Act(Ev("close", tmp, "", <<>>, FALSE, 0))
    /\ Return
    /\ UNCHANGED <<inputs, env, wallet, sandbox, runner, locals, console, evals,
                   stopInvoked, pure>>

----------------------------------------------------------------------------
(* The screens of the extension beyond its home page.  A control can be    *)
(* pressed or filled when the screen that carries it is up and renders it: *)
(* the onboarding screens while no wallet exists, the menus and settings   *)
(* while the wallet is unlocked.                                           *)

OnboardingControls ==
    {"checkbox", "create a new wallet", "import an existing wallet", "no thanks", "mnemonic",
     "confirm Secret Recovery Phrase", "new password", "import my wallet",
     "remind me later", "skip", "got it", "next", "done"}

SettingsControls ==
    {"account-options-menu-button", "global-menu-settings", "advanced", "autoTimeout",
     "auto-lockout-button"}

Controls == OnboardingControls \cup SettingsControls \cup {"popover-close"}

Renders(control) ==
    /\ control \in ui.shown
    /\ control \in OnboardingControls => wallet = "NotCreated"
    /\ control \in SettingsControls => wallet = "Unlocked"

\* the wallet after a control is pressed: the last onboarding screen leaves a
\* created, unlocked wallet
WalletAfterPress(w, control) ==
    IF control = "done" /\ w = "NotCreated" THEN "Unlocked" ELSE w

\* the screens after a control is filled with a text
UiAfterFill(u, control, text) ==
    IF control = "autoTimeout" THEN [u EXCEPT !.field = text] ELSE u

\* the screens after a control is pressed: the save button of the auto-lock
\* setting stores what the field holds
UiAfterPress(u, control) ==
    IF control = "auto-lockout-button" THEN [u EXCEPT !.autoLock = u.field] ELSE u

\* the auto-lock interval in seconds, 0 when none is saved
IdleLimit(u) == IF u.autoLock = <<"2">> THEN 2 * 60 ELSE 0

\* the wallet after it was left alone for so many seconds: with an interval
\* saved and elapsed it locks, or, when auto-lock is defective, it does not
WalletAfterIdle(w, u, seconds) ==
    IF w = "Unlocked" /\ IdleLimit(u) > 0 /\ seconds >= IdleLimit(u)
    THEN {"Locked", w}
    ELSE {w}

----------------------------------------------------------------------------
(* Scripts: the straight-line parts of create, existing and idle_lock.     *)
(* A step is __tick (a click), __fill (a fill) or __submit (a click and    *)
(* then __wait); a control that is not rendered fails the locator.         *)

ScriptStep(op, what, text, next) == [op |-> op, what |-> what, text |-> text, next |-> next]

\* one step on the page: the browser acts, or the locator times out
RunStep(s) ==
    IF Renders(s.what)
    THEN /\ Act(Ev(IF s.op = "fill" THEN "fill" ELSE "click", page, s.what, s.text, FALSE, 0))
         /\ wallet' = (IF s.op = "fill" THEN wallet ELSE WalletAfterPress(wallet, s.what))
         /\ ui' = (IF s.op = "fill" THEN UiAfterFill(ui, s.what, s.text)
                   ELSE UiAfterPress(ui, s.what))
         /\ IF s.op = "submit" THEN EnterWait(s.next) ELSE Continue(s.next)
    ELSE /\ Raise("PlaywrightError")
         /\ UNCHANGED <<log, lateActions, wallet, ui>>

----------------------------------------------------------------------------
(* Sandbox.create *)

\* if await self.__is_not_created(page)
CrIsNotCreated ==
    /\ CanAct
    /\ pc = "cr_is_not_created"
    /\ Probe(page, "create", CreateVisible(tabs[page].view))
    /\ IF created(tabs[page].view)
       THEN /\ console' = Append(console, Say("error", "already_created", <<>>, 0))
            /\ Return
       ELSE /\ console' = console
            /\ Continue("cr_tick")
    /\ UNCHANGED <<inputs, env, wallet, sandbox, runner, locals, tabs, evals, stopInvoked, pure>>

CreateLabels ==
    {"cr_tick", "cr_create", "cr_no_thanks", "cr_tick2", "cr_pw0", "cr_pw1", "cr_create_pw",
     "cr_remind", "cr_tick3", "cr_skip", "cr_got_it", "cr_next", "cr_done", "cr_popover"}

\* a create that leaves the onboarding before its last screen
CreateScriptNoDone(l) ==
    CASE l = "cr_next" -> ScriptStep("submit", "next", <<>>, "cr_popover")
      [] l = "cr_popover" -> ScriptStep("submit", "popover-close", <<>>, "return")
      [] OTHER -> ScriptStep("submit", "skip", <<>>, "cr_next")

\* the statements of create after the gate, in order
CreateScript(l) ==
    CASE l = "cr_tick"      -> ScriptStep("tick", "checkbox", <<>>, "cr_create")
      [] l = "cr_create"    -> ScriptStep("submit", "create a new wallet", <<>>, "cr_no_thanks")
      [] l = "cr_no_thanks" -> ScriptStep("submit", "no thanks", <<>>, "cr_tick2")
      [] l = "cr_tick2"     -> ScriptStep("tick", "checkbox", <<>>, "cr_pw0")
      [] l = "cr_pw0"       -> ScriptStep("fill", "new password", FillValue(<<>>), "cr_pw1")
      [] l = "cr_pw1"       -> ScriptStep("fill", "new password", FillValue(<<>>), "cr_create_pw")
      [] l = "cr_create_pw" -> ScriptStep("submit", "create a new wallet", <<>>, "cr_remind")
      [] l = "cr_remind"    -> ScriptStep("submit", "remind me later", <<>>, "cr_tick3")
      [] l = "cr_tick3"     -> ScriptStep("tick", "checkbox", <<>>, "cr_skip")
      [] l = "cr_skip"      -> ScriptStep("submit", "skip", <<>>, "cr_got_it")
      [] l = "cr_got_it"    -> ScriptStep("submit", "got it", <<>>, "cr_next")
      [] l = "cr_next"      -> ScriptStep("submit", "next", <<>>, "cr_done")
      [] l = "cr_done"      -> ScriptStep("submit", "done", <<>>, "cr_popover")
      [] l = "cr_popover"   -> ScriptStep("submit", "popover-close", <<>>, "return")

CrStep ==
    /\ CanAct
    /\ pc \in CreateLabels
    /\ RunStep(CreateScript(pc))
    /\ UNCHANGED <<inputs, given, setup, sandbox, runner, locals, tabs, console, evals,
                   stopInvoked, pure>>

----------------------------------------------------------------------------
(* Sandbox.existing *)

\* if await self.__is_not_created(page)
ExIsNotCreated ==
    /\ CanAct
    /\ pc = "ex_is_not_created"
    /\ Probe(page, "create", CreateVisible(tabs[page].view))
    /\ IF created(tabs[page].view)
       THEN /\ console' = Append(console, Say("error", "already_created", <<>>, 0))
            /\ Return
       ELSE /\ console' = console
            /\ Continue("ex_tick")
    /\ UNCHANGED <<inputs, env, wallet, sandbox, runner, locals, tabs, evals, stopInvoked, pure>>

ExistingLabels ==
    {"ex_tick", "ex_import", "ex_no_thanks", "ex_confirm", "ex_tick2", "ex_pw0", "ex_pw1",
     "ex_import_my", "ex_got_it", "ex_next", "ex_done", "ex_popover"}

\* the statements of existing after the gate, in order; the mnemonic is read,
\* checked and typed between "no thanks" and the confirmation
ExistingScript(l) ==
    CASE l = "ex_tick"      -> ScriptStep("tick", "checkbox", <<>>, "ex_import")
      [] l = "ex_import"    -> ScriptStep("submit", "import an existing wallet", <<>>, "ex_no_thanks")
      [] l = "ex_no_thanks" -> ScriptStep("submit", "no thanks", <<>>, "ex_mnemonic")
      [] l = "ex_confirm"   -> ScriptStep("submit", "confirm Secret Recovery Phrase", <<>>, "ex_tick2")
      [] l = "ex_tick2"     -> ScriptStep("tick", "checkbox", <<>>, "ex_pw0")
      [] l = "ex_pw0"       -> ScriptStep("fill", "new password", FillValue(<<>>), "ex_pw1")
      [] l = "ex_pw1"       -> ScriptStep("fill", "new password", FillValue(<<>>), "ex_import_my")
      [] l = "ex_import_my" -> ScriptStep("submit", "import my wallet", <<>>, "ex_got_it")
      [] l = "ex_got_it"    -> ScriptStep("submit", "got it", <<>>, "ex_next")
      [] l = "ex_next"      -> ScriptStep("submit", "next", <<>>, "ex_done")
      [] l = "ex_done"      -> ScriptStep("submit", "done", <<>>, "ex_popover")
      [] l = "ex_popover"   -> ScriptStep("submit", "popover-close", <<>>, "return")

ExStep ==
    /\ CanAct
    /\ pc \in ExistingLabels
    /\ RunStep(ExistingScript(pc))
    /\ UNCHANGED <<inputs, given, setup, sandbox, runner, locals, tabs, console, evals,
                   stopInvoked, pure>>

\* mnemonic = get_extra_value(**kwargs); the error, or mnemonic.split(" "),
\* kept in wordlist
ExMnemonic ==
    /\ CanStep
    /\ pc = "ex_mnemonic"
    /\ IF get_extra_value(value) = <<>>
       THEN /\ console' = Append(console, Say("error", "mnemonic_required", <<>>, 0))
            /\ UNCHANGED <<wordlist, idx>>
            /\ Return
       ELSE /\ wordlist' = Split(get_extra_value(value), <<" ">>)
            /\ idx' = 1
            /\ console' = console
            /\ Continue("ex_type")
    /\ UNCHANGED <<inputs, env, wallet, sandbox, runner, page, state, paths, success, tmp, size,
                   tabs, log, evals, stopInvoked, lateActions, pure>>

\* __fill_sequentially: press_sequentially(value[i]) into the i-th field
ExType ==
    /\ CanAct
    /\ pc = "ex_type"
    /\ IF Renders("mnemonic")
       THEN /\ Act(Ev("type", page, "mnemonic", wordlist[idx], FALSE, idx - 1))
            /\ idx' = idx + 1
            /\ Continue(IF idx < Len(wordlist) THEN "ex_type" ELSE "ex_confirm")
       ELSE /\ Raise("PlaywrightError")
            /\ UNCHANGED <<log, lateActions, idx>>
    /\ UNCHANGED <<inputs, env, wallet, sandbox, runner, page, wordlist, state, paths, success,
                   tmp, size, tabs, console, evals, stopInvoked, pure>>

----------------------------------------------------------------------------
(* Sandbox.unlock *)

\* if await self.__is_created(page): await self.__unlock(page, password)
UnIsCreated ==
    /\ CanAct
    /\ pc = "un_is_created"
    /\ Probe(page, "create", CreateVisible(tabs[page].view))
    /\ IF created(tabs[page].view)
       THEN /\ Call("unlock_probe", "return")
            /\ console' = console
       ELSE /\ console' = Append(console, Say("error", "not_created", <<>>, 0))
            /\ Return
    /\ UNCHANGED <<inputs, env, wallet, sandbox, runner, locals, tabs, evals, stopInvoked, pure>>

----------------------------------------------------------------------------
(* Sandbox.idle_lock *)

\* "2": the auto-lock interval typed into the setting, in minutes
IdleMinutes == <<"2">>

\* a wait shorter than the interval
IdleWaitShort == 2 * 60 - 5

\* wait_time = 2 * 60 + 5 # 2 minutes and 5 seconds
IdleWaitTime == 2 * 60 + 5

\* if await self.__is_created(page): await self.__unlock(page)
IlIsCreated ==
    /\ CanAct
    /\ pc = "il_is_created"
    /\ Probe(page, "create", CreateVisible(tabs[page].view))
    /\ IF created(tabs[page].view)
       THEN /\ Call("unlock_probe", "il_menu")
            /\ console' = console
       ELSE /\ console' = Append(console, Say("error", "not_created", <<>>, 0))
            /\ Return
    /\ UNCHANGED <<inputs, env, wallet, sandbox, runner, locals, tabs, evals, stopInvoked, pure>>

IdleLockLabels == {"il_menu", "il_settings", "il_advanced", "il_fill", "il_save"}

\* the statements of idle_lock from the account menu to the saved setting
IdleLockScript(l) ==
    CASE l = "il_menu"     -> ScriptStep("submit", "account-options-menu-button", <<>>, "il_settings")
      [] l = "il_settings" -> ScriptStep("submit", "global-menu-settings", <<>>, "il_advanced")
      [] l = "il_advanced" -> ScriptStep("submit", "advanced", <<>>, "il_fill")
      [] l = "il_fill"     -> ScriptStep("fill", "autoTimeout", IdleMinutes, "il_save")
      [] l = "il_save"     -> ScriptStep("submit", "auto-lockout-button", <<>>, "il_wait")

IlStep ==
    /\ CanAct
    /\ pc \in IdleLockLabels
    /\ RunStep(IdleLockScript(pc))
    /\ UNCHANGED <<inputs, given, setup, sandbox, runner, locals, tabs, console, evals,
                   stopInvoked, pure>>

\* print_info(f"Waiting {wait_time} sec ..."); await self.__wait(page, wait_time),
\* the sleep
IlWait ==
    /\ CanStep
    /\ pc = "il_wait"
    /\ console' = Append(console, Say("info", "waiting", <<>>, IdleWaitTime))
    /\ log' = Append(log, Ev("sleep", 0, "", <<>>, FALSE, SleepTime(IdleWaitTime)))
    /\ wallet' \in WalletAfterIdle(wallet, ui, SleepTime(IdleWaitTime))
    /\ pc' = "wait_load"
    /\ ret' = <<"il_goto">> \o ret
    /\ UNCHANGED <<inputs, env, sandbox, runner, locals, tabs, evals, stopInvoked, lateActions,
                   pure, task, texc>>

\* await self.__goto_browser_extension(page)
IlGoto ==
    /\ CanAct
    /\ pc = "il_goto"
    /\ PageGoto(page, <<>>)
    /\ EnterWait("il_check")
    /\ UNCHANGED <<inputs, env, sandbox, runner, locals, console, evals, stopInvoked, pure>>

\* if not await self.__locked(page): print_alert("Auto-lock does not work properly")
IlCheck ==
    /\ CanAct
    /\ pc = "il_check"
    /\ Probe(page, "unlock", UnlockVisible(tabs[page].view))
    /\ console' = IF ~locked(tabs[page].view)
                  THEN Append(console, Say("alert", "auto_lock_defect", <<>>, 0))
                  ELSE console
    /\ Return
    /\ UNCHANGED <<inputs, env, wallet, sandbox, runner, locals, tabs, evals, stopInvoked, pure>>

----------------------------------------------------------------------------
(* Downloads.  __save_file saves a download under the downloads directory  *)
(* with its suggested file name; it runs for the pages on which            *)
(* __handle_downloads registered it.  A download on any other page is kept *)
(* by the browser under a temporary name until the context closes.         *)

DownloadsSeen == {i \in DOMAIN log : log[i].op = "download"}

\* page.on("download", self.__save_file) was called on the page
SavesDownloads(tab) == "download" \in tab.handlers

\* a page starts a download while the flow runs
Download ==
    /\ CanAct
    /\ rpc = "flow"
    /\ Cardinality(DownloadsSeen) < MaxDownloads
    /\ \E t \in DOMAIN tabs :
         /\ tabs[t].open
         /\ log' = Append(log, Ev("download", t,
                                  IF SavesDownloads(tabs[t]) THEN "suggested_filename"
                                  ELSE "temporary",
                                  <<>>, SavesDownloads(tabs[t]), 0))
    /\ UNCHANGED <<inputs, env, wallet, sandbox, runner, task, pc, ret, texc, locals, tabs,
                   console, evals, stopInvoked, lateActions, pure>>

----------------------------------------------------------------------------
(* Failures of the browser *)

\* the positions at which the coroutine awaits the browser
BrowserLabels ==
    {"bs_playwright", "bs_launch", "bs_grant", "bs_url", "new_page", "goto_home", "wait_load",
     "lock_probe", "lock_goto", "unlock_probe", "unlock_fill", "unlock_click",
     "unlock_popover", "unlock_popover_close",
     "ubf_is_created", "ubf_fill", "ubf_click", "ubf_check",
     "ac_is_created", "ac_new_tmp", "ac_goto", "ac_root", "ac_text", "ac_guard", "ac_close",
     "cr_is_not_created", "ex_is_not_created", "ex_type", "un_is_created",
     "il_is_created", "il_goto", "il_check"}
        \cup CreateLabels \cup ExistingLabels \cup IdleLockLabels

\* the awaited browser action raises: a locator or navigation timeout, or the
\* target is closed
Fault ==
    /\ CanStep
    /\ pc \in BrowserLabels
    /\ Raise("PlaywrightError")
    /\ UNCHANGED <<inputs, env, wallet, sandbox, runner, locals, tabs, observed,
                   stopInvoked, lateActions, pure>>

----------------------------------------------------------------------------
(* Initial states: one run of Test.run, for each selection and its inputs *)

PwA == <<"a">>
PwB == <<"b">>
PwC == <<"c">>

\* self.password = "Password123!"
Password123 == <<"P", "a", "s", "s", "w", "o", "r", "d", "1", "2", "3", "!">>

\* lines of a wordlist file, with their surrounding blanks
LineSet == {<<" ">>, <<"a">>, <<"a", " ">>, <<"b">>, <<"c">>}

Files ==
    {[kind |-> k, lines |-> <<>>] : k \in {"missing", "unreadable"}}
    \cup {[kind |-> "file", lines |-> l] : l \in SeqsUpTo(LineSet, MaxLines)}

NoFile == [kind |-> "missing", lines |-> <<>>]

HomePath     == <<"/">> \o home_page
FragSend     == <<"#", "s", "e", "n", "d">>
FragSettings == <<"#", "s", "e", "t", "t", "i", "n", "g", "s">>
FragmentSet  == {FragSend, FragSettings}

\* the extra value: none, a wordlist path, or a state literal
ValWordlist == <<"w">>
ValLockedMixed == <<"L">> \o Tail(StrLocked)
ValOther == <<"x">>
ValMnemonic == <<"a", " ", "b">>

InitCore ==
    /\ playwright = "None" /\ context = "None" /\ url_base = <<>>
    /\ rpc = "try" /\ exc = "none" /\ loop = "open"
    /\ task = "none" /\ pc = "none" /\ ret = <<>> /\ texc = "none"
    /\ page = 0 /\ wordlist = <<>> /\ idx = 0 /\ state = <<>> /\ paths = <<>>
    /\ success = FALSE /\ tmp = 0 /\ size = 0
    /\ tabs = <<>>
    /\ console = <<>> /\ log = <<>> /\ evals = <<>>
    /\ stopInvoked = 0 /\ lateActions = FALSE

\* the environment is set up: the copy of the extension is in the session directory
NoSetup ==
    [step |-> "done", sessionArg |-> TRUE, session |-> "old", existed |-> TRUE, mkdirOk |-> TRUE,
     extension |-> "none", destination |-> "v3", copy |-> "v3", located |-> "none",
     confirm |-> FALSE, copyOk |-> TRUE, success |-> TRUE]

\* every screen renders its controls, and no auto-lock interval is saved
HomeUi == [shown |-> Controls, field |-> <<>>, autoLock |-> <<>>]

InitMachine == InitCore /\ setup = NoSetup /\ ui = HomeUi

InitEngine == InitMachine /\ fin = <<>> /\ fout = <<>>

\* the selections of the whole run: every method, a name the parser accepts but
\* no method carries, and the failures of browser_start
InitOpen ==
    /\ test \in {"open", "brute_force_unlock"}
    /\ value = <<>> /\ password = PwA
    /\ wait_time \in {0, 2}
    /\ proxy \in {<<>>, <<"p">>}
    /\ manifest \in {"v3", "v2", "bad"}
    /\ file = NoFile
    /\ wallet \in WalletStates /\ truePassword = PwA
    /\ pagesIn = <<HomePath>> /\ fragmentsIn = <<>>
    /\ InitEngine

\* unlock_brute_force within the whole run: one wordlist of two candidates
InitRunBrute ==
    /\ test = "unlock_brute_force"
    /\ value \in {<<>>, ValWordlist} /\ password = PwA
    /\ wait_time \in {0, 2}
    /\ proxy = <<>>
    /\ manifest = "v3"
    /\ file = [kind |-> "file", lines |-> <<PwA, PwB>>]
    /\ wallet \in WalletStates /\ truePassword \in {PwB, PwC}
    /\ pagesIn = <<HomePath>> /\ fragmentsIn = <<>>
    /\ InitEngine

\* access_control within the whole run: one fragment
InitRunScan ==
    /\ test = "access_control"
    /\ value \in {<<>>, StrLocked, StrUnlocked}
    /\ password = PwA
    /\ wait_time \in {0, 2}
    /\ proxy = <<>>
    /\ manifest = "v3"
    /\ file = NoFile
    /\ wallet \in WalletStates /\ truePassword = PwA
    /\ pagesIn = <<HomePath>> /\ fragmentsIn = <<FragSend>>
    /\ InitEngine

\* create, existing, unlock and idle_lock within the whole run: with and
\* without the extra value, on screens that render every control or lack one
InitRunOther ==
    /\ test \in {"create", "existing", "unlock", "idle_lock"}
    /\ value \in {<<>>, ValMnemonic} /\ password = PwA
    /\ wait_time = 2
    /\ proxy = <<>>
    /\ manifest = "v3"
    /\ file = NoFile
    /\ wallet \in WalletStates /\ truePassword = PwA
    /\ pagesIn = <<HomePath>> /\ fragmentsIn = <<>>
    /\ InitCore /\ setup = NoSetup
    /\ ui \in {HomeUi, [HomeUi EXCEPT !.shown = Controls \ {"no thanks"}]}
    /\ fin = <<>> /\ fout = <<>>

Init == InitOpen \/ InitRunBrute \/ InitRunScan \/ InitRunOther

\* unlock_brute_force over every wordlist file of the bounds
InitBrute ==
    /\ test = "unlock_brute_force"
    /\ value \in {<<>>, ValWordlist} /\ password = PwA
    /\ wait_time = 2
    /\ proxy = <<>>
    /\ manifest = "v3"
    /\ file \in (IF value = <<>> THEN {NoFile} ELSE Files)
    /\ wallet \in WalletStates /\ truePassword \in {PwA, PwC}
    /\ pagesIn = <<HomePath>> /\ fragmentsIn = <<>>
    /\ InitEngine

\* unlock_brute_force on the wordlist a, Password123!, b
InitScenario ==
    /\ test = "unlock_brute_force"
    /\ value = ValWordlist /\ password \in {PwA, Password123}
    /\ wait_time \in {0, 2}
    /\ proxy = <<>>
    /\ manifest = "v3"
    /\ file = [kind |-> "file", lines |-> <<PwA, Password123, PwB>>]
    /\ wallet \in WalletStates /\ truePassword = Password123
    /\ pagesIn = <<HomePath>> /\ fragmentsIn = <<>>
    /\ InitEngine

\* access_control over every fragment list of the bounds; the password matters
\* to the unlocked state only, and the mixed-case literal runs the short lists;
\* the page list is the literal of the source or, for the locked state, a list
\* edited down to nothing
InitScan ==
    /\ test = "access_control"
    /\ value \in {<<>>, StrLocked, StrUnlocked, ValLockedMixed, ValOther}
    /\ password \in (IF value = StrUnlocked THEN {PwA, PwB} ELSE {PwA})
    /\ wait_time = 2
    /\ proxy = <<>>
    /\ manifest = "v3"
    /\ file = NoFile
    /\ wallet \in WalletStates /\ truePassword = PwA
    /\ pagesIn \in (IF value = StrLocked THEN {<<>>, <<HomePath>>} ELSE {<<HomePath>>})
    /\ fragmentsIn \in SeqsUpTo(FragmentSet, IF value = ValLockedMixed THEN 1 ELSE MaxFragments)
    /\ InitEngine

----------------------------------------------------------------------------
(* Next-state relations *)

RunOkNext ==
    \/ RunBegin \/ RunStartDone \/ RunFlowDone \/ RunPrompt
    \/ RunStopBegin \/ RunStopClose \/ RunStopPlaywright \/ RunLoopClose

StartNext == BsPlaywright \/ BsLaunch \/ BsGrant \/ BsUrl

CommonNext == FlowNewPage \/ FlowGotoHome \/ WaitSleep \/ WaitLoad \/ LockProbe \/ LockGoto

UnlockNext == UnlockProbe \/ UnlockFill \/ UnlockClick \/ UnlockPopover \/ UnlockPopoverClose

BruteNext == UbfIsCreated \/ UbfWordlist \/ UbfFill \/ UbfClick \/ UbfCheck

ScanNext == AcIsCreated \/ AcBuild \/ AcNewTmp \/ AcGoto \/ AcRoot \/ AcText \/ AcGuard \/ AcClose

OnboardNext == CrIsNotCreated \/ CrStep \/ ExIsNotCreated \/ ExStep \/ ExMnemonic \/ ExType

IdleNext == IlIsCreated \/ IlStep \/ IlWait \/ IlGoto \/ IlCheck

\* the whole run: every selection, with the failures of the browser and the
\* operator's interrupt
Next ==
    \/ RunOkNext \/ RunRaised \/ StartNext \/ CommonNext \/ UnlockNext \/ BruteNext \/ ScanNext
    \/ OnboardNext \/ UnIsCreated \/ IdleNext
    \/ Fault \/ Interrupt \/ InterruptPrompt

Spec == Init /\ [][Next]_vars

\* a run of unlock_brute_force in which the browser answers every action and
\* the operator does not interrupt; every awaited action completes
NextBrute == RunOkNext \/ StartNext \/ CommonNext \/ BruteNext

BruteSpec == InitBrute /\ [][NextBrute]_vars /\ WF_vars(NextBrute)

ScenarioSpec == InitScenario /\ [][NextBrute]_vars

\* the open flow, with pages that start downloads
InitDownload ==
    /\ test = "open"
    /\ value = <<>> /\ password = PwA
    /\ wait_time \in {0, 2}
    /\ proxy = <<>>
    /\ manifest \in {"v2", "v3"}
    /\ file = NoFile
    /\ wallet \in WalletStates /\ truePassword = PwA
    /\ pagesIn = <<HomePath>> /\ fragmentsIn = <<>>
    /\ InitEngine

NextDownload ==
    \/ RunOkNext \/ StartNext \/ FlowNewPage \/ FlowGotoHome \/ WaitSleep \/ WaitLoad
    \/ Download

DownloadSpec == InitDownload /\ [][NextDownload]_vars

\* a run of access_control in which the browser answers every action and the
\* operator does not interrupt
NextScan == RunOkNext \/ StartNext \/ CommonNext \/ UnlockNext \/ ScanNext

ScanSpec == InitScan /\ [][NextScan]_vars

\* a screen that fails to render one of its controls, or renders them all
Screens ==
    {[HomeUi EXCEPT !.shown = Controls \ miss] :
        miss \in {{}, {"no thanks"}, {"advanced"}, {"popover-close"}}}

ExtensionDirs == {"missing", "nomanifest", "unparsable", "v2", "v3"}

\* the command lines and the file systems Test.__get_environment may meet: a
\* session directory that is not given holds nothing yet, and only an old
\* session directory holds a copy of the extension
SetupInputs ==
    {e \in [step : {"session"}, sessionArg : BOOLEAN, session : {"absent", "old"},
            existed : BOOLEAN, mkdirOk : BOOLEAN,
            extension : {"none"} \cup ExtensionDirs,
            destination : {"absent", "file", "nomanifest", "unparsable", "v3"},
            copy : {"absent", "file", "nomanifest", "unparsable", "v3"},
            located : {"none", "unparsable", "v3"},
            confirm : BOOLEAN, copyOk : BOOLEAN, success : {TRUE}] :
        /\ e.existed = (e.session = "old")
        /\ e.copy = e.destination
        /\ ~e.sessionArg => e.session = "absent"
        /\ e.session = "absent" => e.destination = "absent"
        /\ e.session = "old" => e.mkdirOk
        /\ e.extension # "none" => e.located = "none"}

\* the whole program, from the environment setup to the end of the open flow
InitSetup ==
    /\ test = "open"
    /\ value = <<>> /\ password = PwA
    /\ wait_time = 2
    /\ proxy = <<>>
    /\ manifest = "bad"
    /\ file = NoFile
    /\ wallet = "Locked" /\ truePassword = PwA
    /\ pagesIn = <<HomePath>> /\ fragmentsIn = <<>>
    /\ InitCore /\ setup \in SetupInputs /\ ui = HomeUi
    /\ fin = <<>> /\ fout = <<>>

EnvNext == EnvSession \/ EnvExtension \/ EnvFinish

NextSetup ==
    \/ EnvNext \/ RunOkNext \/ RunRaised \/ StartNext
    \/ FlowNewPage \/ FlowGotoHome \/ WaitSleep \/ WaitLoad

SetupSpec == InitSetup /\ [][NextSetup]_vars

\* idle_lock: the configured password may be wrong, a settings screen may lack
\* a control
InitIdleLock ==
    /\ test = "idle_lock"
    /\ value = <<>> /\ password \in {PwA, PwB}
    /\ wait_time \in {0, 2}
    /\ proxy = <<>>
    /\ manifest = "v3"
    /\ file = NoFile
    /\ wallet \in WalletStates /\ truePassword = PwA
    /\ pagesIn = <<HomePath>> /\ fragmentsIn = <<>>
    /\ InitCore /\ setup = NoSetup /\ ui \in Screens
    /\ fin = <<>> /\ fout = <<>>

\* create, existing and unlock: any one control of the onboarding may be
\* missing; the password given to unlock may be the wallet's or not
InitOnboard ==
    /\ test \in {"create", "existing", "unlock"}
    /\ value \in {<<>>, ValMnemonic} /\ password = PwA
    /\ wait_time \in {0, 2}
    /\ proxy = <<>>
    /\ manifest = "v3"
    /\ file = NoFile
    /\ wallet \in WalletStates
    /\ truePassword \in (IF test = "unlock" THEN {PwA, ValMnemonic} ELSE {PwA})
    /\ pagesIn = <<HomePath>> /\ fragmentsIn = <<>>
    /\ InitCore /\ setup = NoSetup
    /\ ui \in {HomeUi} \cup {[HomeUi EXCEPT !.shown = Controls \ {c}] : c \in OnboardingControls}
    /\ fin = <<>> /\ fout = <<>>

\* a run of create, existing or unlock in which the operator does not
\* interrupt and the browser fails only on a control that is not there
NextOnboard ==
    \/ RunOkNext \/ RunRaised \/ StartNext
    \/ FlowNewPage \/ FlowGotoHome \/ WaitSleep \/ WaitLoad
    \/ UnlockNext \/ OnboardNext \/ UnIsCreated

OnboardSpec == InitOnboard /\ [][NextOnboard]_vars

\* a run of idle_lock in which the operator does not interrupt and the browser
\* fails only on a control that is not there
NextIdleLock ==
    \/ RunOkNext \/ RunRaised \/ StartNext
    \/ FlowNewPage \/ FlowGotoHome \/ WaitSleep \/ WaitLoad
    \/ UnlockNext \/ IdleNext

IdleLockSpec == InitIdleLock /\ [][NextIdleLock]_vars

----------------------------------------------------------------------------
(* The catalog and the state probes on their own, over every input of the  *)
(* bounds                                                                   *)

\* no run is in progress
InitIdle ==
    /\ test = "open" /\ value = <<>> /\ password = PwA /\ wait_time = 2 /\ proxy = <<>>
    /\ manifest = "v3" /\ file = NoFile
    /\ wallet = "NotCreated" /\ truePassword = PwA
    /\ pagesIn = <<>> /\ fragmentsIn = <<>>
    /\ InitMachine

PopupPath  == <<"/", "p">> \o DotHtml
FragNested == <<"#", "a", "/", "b">>

\* page lists and fragment lists as access_control writes them
PageLists     == SeqsUpTo({HomePath, PopupPath}, MaxPages)
FragmentLists == SeqsUpTo({FragSend, FragSettings, FragNested}, MaxCatalogFragments)

InitCatalog ==
    /\ InitIdle
    /\ fin \in [pages : PageLists, fragments : FragmentLists]
    /\ fout = [done |-> FALSE, paths |-> <<>>]

\* the catalog block of access_control: the two loops and paths = unique(paths)
CatalogBuild ==
    /\ ~fout.done
    /\ fout' = [done |-> TRUE, paths |-> BuildPaths(fin.pages, fin.fragments)]
    /\ UNCHANGED <<inputs, env, wallet, sandbox, runner, task, pc, ret, texc, locals, tabs,
                   observed, stopInvoked, lateActions, fin>>

NextCatalog == CatalogBuild

CatalogSpec == InitCatalog /\ [][NextCatalog]_vars

\* unique(sequence) with sort off, once and once more on its result
InitUnique ==
    /\ InitIdle
    /\ fin \in SeqsUpTo({PwA, PwB, PwC}, MaxSeqLen)
    /\ fout = [done |-> FALSE, once |-> <<>>, twice |-> <<>>]

UniqueApply ==
    /\ ~fout.done
    /\ fout' = [done |-> TRUE, once |-> unique(fin, FALSE),
                 twice |-> unique(unique(fin, FALSE), FALSE)]
    /\ UNCHANGED <<inputs, env, wallet, sandbox, runner, task, pc, ret, texc, locals, tabs,
                   observed, stopInvoked, lateActions, fin>>

NextUnique == UniqueApply

UniqueSpec == InitUnique /\ [][NextUnique]_vars

\* every page a probe can meet
AllViews ==
    {View(c, u, r, t, b, p) :
        c \in BOOLEAN, u \in BOOLEAN, r \in BOOLEAN, t \in 0..MaxSize, b \in BOOLEAN, p \in BOOLEAN}

InitOracle ==
    /\ InitIdle
    /\ fin \in AllViews
    /\ fout = [done |-> FALSE, created |-> FALSE, locked |-> FALSE, state |-> ""]

\* __created and __locked on the page fin, and the state the flows act on
OracleRead ==
    /\ ~fout.done
    /\ fout' = [done |-> TRUE, created |-> created(fin), locked |-> locked(fin),
                state |-> Oracle(fin)]
    /\ UNCHANGED <<inputs, env, wallet, sandbox, runner, task, pc, ret, texc, locals, tabs,
                   observed, stopInvoked, lateActions, fin>>

NextOracle == OracleRead

OracleSpec == InitOracle /\ [][NextOracle]_vars

----------------------------------------------------------------------------
(* What a run shows: read off the log of browser actions and the console   *)

\* the unlock submissions, in the order they were issued
Clicks == SelectSeq(log, LAMBDA e : e.op = "click" /\ e.what = "unlock")

\* the candidates submitted: what the password field held at each submission
Submitted == [i \in DOMAIN Clicks |-> Clicks[i].text]

\* the credentials the run reported
Reports == SelectSeq(console, LAMBDA l : l.kind = "alert" /\ l.msg = "unlocked")
Reported == [i \in DOMAIN Reports |-> Reports[i].text]

\* the leaks the run reported
Leaks == SelectSeq(console, LAMBDA l : l.kind = "alert" /\ l.msg = "leak")

\* the selected flow has returned
FlowReturned == task = "returned" /\ rpc \notin {"try", "start"}

\* the elements of s at the positions keep, in ascending position
RefPick(s, keep) ==
    [k \in 1..Cardinality(keep) |-> s[CHOOSE i \in keep : Cardinality({j \in keep : j <= i}) = k]]

\* s with every repeated element after its first occurrence removed
RefFirsts(s) == RefPick(s, {i \in DOMAIN s : \A j \in 1..(i - 1) : s[j] # s[i]})

\* a line without its leading and trailing blanks
RefStrip(line) ==
    LET inked == {i \in DOMAIN line : line[i] # " "}
    IN  IF inked = {} THEN <<>> ELSE SubSeq(line, Min(inked), Max(inked))

\* the list a wordlist file stands for: its non-empty stripped lines, in file
\* order, each kept at its first occurrence
RefWords(f) ==
    IF f.kind # "file" THEN <<>>
    ELSE LET stripped == [i \in DOMAIN f.lines |-> RefStrip(f.lines[i])]
         IN  RefFirsts(RefPick(stripped, {i \in DOMAIN stripped : stripped[i] # <<>>}))

\* the catalog of well-formed lists: each page, then the page with each
\* fragment, each entry kept at its first occurrence
RefCatalog(pages, fragments) ==
    LET n == 1 + Len(fragments)
        flat == [k \in 1..(Len(pages) * n) |->
                    LET pg == pages[((k - 1) \div n) + 1]
                        fi == (k - 1) % n
                    IN  IF fi = 0 THEN pg ELSE pg \o fragments[fi]]
    IN  RefFirsts(flat)

IsPrefix(a, b) == Len(a) <= Len(b) /\ \A i \in DOMAIN a : a[i] = b[i]

----------------------------------------------------------------------------
(* C1 *)

\* C1: once browser_start has been attempted, browser_stop is invoked on every
\* exit path of Test.run, and it is invoked only after the flow has stopped
\* issuing browser actions: no browser action of the flow is issued once
\* browser_stop has been invoked.
C1_TeardownAfterFlowOnEveryExit ==
    /\ rpc = "exited" => stopInvoked = 1
    /\ stopInvoked = 0 => rpc \in {"try", "start", "flow", "prompt", "finally"}
    /\ ~lateActions

\* the part of C1 the code keeps: browser_stop is invoked, once, on every exit
C1_TeardownOnEveryExit ==
    /\ rpc = "exited" => stopInvoked = 1
    /\ stopInvoked = 0 => rpc \in {"try", "start", "flow", "prompt", "finally"}

\* an interrupted flow acted after browser_stop was invoked
C1_LateAction == lateActions /\ exc = "KeyboardInterrupt"

----------------------------------------------------------------------------
(* C2, C3, C9, C10: unlock_brute_force *)

\* a wordlist was passed, it stands for a non-empty list, and a wallet exists
BrutePre ==
    /\ test = "unlock_brute_force"
    /\ value # <<>>
    /\ RefWords(file) # <<>>
    /\ wallet # "NotCreated"

\* exactly one credential, a member of the list, was reported
OutcomeFound == Len(Reported) = 1 /\ Reported[1] \in Range(RefWords(file))

\* every member of the list was attempted once, in file order, and none reported
OutcomeExhausted == Reported = <<>> /\ Submitted = RefWords(file)

\* C2: for any non-empty wordlist and a created wallet, unlock_brute_force
\* terminates, and when it has returned exactly one of the two outcomes holds:
\* one credential of the deduplicated, order-preserved list was reported, or
\* every member of that list was attempted exactly once, in file order, and
\* none was reported.
C2_BruteForceTerminatesInOneOutcome ==
    /\ [](BrutePre /\ FlowReturned =>
            (OutcomeFound \/ OutcomeExhausted) /\ ~(OutcomeFound /\ OutcomeExhausted))
    /\ ((BrutePre /\ rpc = "flow") ~> FlowReturned)

\* a run over a list of two that reported its second member
C2_FoundSecond ==
    /\ BrutePre /\ FlowReturned
    /\ Len(file.lines) = 3 /\ Len(RefWords(file)) = 2
    /\ OutcomeFound /\ Reported[1] = RefWords(file)[2]

\* a run that exhausted a list shorter than its file
C2_Exhausted ==
    /\ BrutePre /\ FlowReturned
    /\ Len(file.lines) = 3 /\ Len(RefWords(file)) = 2
    /\ OutcomeExhausted

\* the positions of the log
ClickAt(i) == log[i].op = "click" /\ log[i].what = "unlock"
ProbeAt(k) == log[k].op = "visible"

\* the first probe after position i, 0 when there is none
AnswerTo(i) ==
    LET later == {k \in DOMAIN log : k > i /\ ProbeAt(k)}
    IN  IF later = {} THEN 0 ELSE Min(later)

\* C3: the oracle is queried after every attempt, before any further attempt;
\* while it answers Locked the candidate is not reported; at the first attempt
\* after which it does not answer Locked the flow returns having reported that
\* candidate and nothing else, and no candidate is submitted afterwards; the
\* candidates before it are the list's members in order, each attempted once.
C3_OracleAfterEveryAttemptStopsAtFirst ==
    /\ IsPrefix(Submitted, wordlist)
    /\ \A i \in DOMAIN log : ClickAt(i) =>
         LET k == AnswerTo(i)
             more == \E j \in DOMAIN log : j > i /\ ClickAt(j)
         IN  /\ (more \/ FlowReturned) => k # 0
             /\ k # 0 =>
                  /\ log[k].what = "unlock"
                  /\ \A j \in DOMAIN log : (j > i /\ ClickAt(j)) => j > k
                  /\ log[k].vis => log[i].text \notin Range(Reported)
                  /\ ~log[k].vis =>
                       /\ FlowReturned
                       /\ ~more
                       /\ Reported = <<log[i].text>>
                       /\ \A h \in DOMAIN log : (h < i /\ ClickAt(h)) => log[AnswerTo(h)].vis

\* the first candidate of three unlocked the wallet: the other two were not tried
C3_StoppedAtFirstOfThree ==
    /\ FlowReturned
    /\ Len(wordlist) = 3
    /\ Len(Submitted) = 1
    /\ Reported = <<wordlist[1]>>

\* C9: the candidates submitted are a prefix of the file's non-empty stripped
\* lines with every repeated line after its first occurrence removed, in file
\* order (never sorted), and no candidate is submitted twice.
C9_SubmittedPrefixOfFileOrder ==
    /\ IsPrefix(Submitted, RefWords(file))
    /\ \A i, j \in DOMAIN Submitted : Submitted[i] = Submitted[j] => i = j

\* a file whose lines are out of alphabetical order, repeated and padded
C9_UnsortedRepeatedPadded ==
    /\ file.kind = "file"
    /\ file.lines = <<PwB, <<"a", " ">>, PwB>>
    /\ Submitted = <<PwB, PwA>>
    /\ FlowReturned

\* the creation probe and the lock probe of the flow, 0 while not yet issued
CreateProbe ==
    LET ks == {k \in DOMAIN log : ProbeAt(k) /\ log[k].what = "create"}
    IN  IF ks = {} THEN 0 ELSE Min(ks)

LockProbeAt ==
    LET ks == {k \in DOMAIN log : ProbeAt(k) /\ log[k].what = "unlock"}
    IN  IF ks = {} THEN 0 ELSE Min(ks)

\* the navigations to the lock address
LockLoads ==
    {g \in DOMAIN log : log[g].op = "goto"
                        /\ log[g].text = url_base \o <<"/">> \o home_page \o LockFragment}

\* C10: no candidate is submitted unless the creation probe found the wallet
\* created; when the first candidate is submitted the wallet is Locked; a wallet
\* the lock probe found not locked is driven to the lock address before the
\* first submission, and a wallet found locked is not navigated at all.
C10_SubmitsOnlyToCreatedLockedWallet ==
    /\ [](Submitted # <<>> => CreateProbe # 0 /\ ~log[CreateProbe].vis)
    /\ [](pc \in {"ubf_fill", "ubf_click"} /\ Submitted = <<>> => wallet = "Locked")
    /\ [][(Submitted = <<>> /\ Submitted' # <<>>) => wallet = "Locked"]_vars
    /\ [](LockProbeAt # 0 /\ log[LockProbeAt].vis => LockLoads = {})
    /\ [](LockProbeAt # 0 /\ ~log[LockProbeAt].vis /\ Submitted # <<>> =>
            \E g \in LockLoads : LockProbeAt < g /\ \A i \in DOMAIN log : ClickAt(i) => g < i)

\* a wallet found unlocked was locked through the lock address, then attempted
C10_UnlockedDrivenToLocked ==
    /\ LockProbeAt # 0 /\ ~log[LockProbeAt].vis
    /\ LockLoads # {}
    /\ Submitted # <<>>

\* a wallet found locked was attempted without navigation
C10_LockedLeftAsIs ==
    /\ LockProbeAt # 0 /\ log[LockProbeAt].vis
    /\ Submitted # <<>>

----------------------------------------------------------------------------
(* C4, C5, C6: access_control *)

\* the addresses the scan loaded, in order: the navigations of the scan's pages
ScanLoads ==
    LET gs == SelectSeq(log, LAMBDA e : e.op = "goto" /\ e.tab # page)
    IN  [i \in DOMAIN gs |-> gs[i].text]

\* the scan was entered: the catalog was announced
ScanEntered == \E i \in DOMAIN console : console[i].msg = "urls"

\* the catalog of the run
RunCatalog == RefCatalog(pagesIn, fragmentsIn)

\* C4: the catalog is built before the first target is loaded and from then on
\* it is the deduplicated catalog of the run's lists, unchanged; the targets
\* loaded and the targets evaluated are, in order, the members of that catalog,
\* each once, and when the scan has returned every member has been loaded and
\* evaluated, whatever was flagged.
C4_EveryTargetOnceInCatalogOrder ==
    /\ ScanLoads # <<>> => ScanEntered
    /\ ScanEntered => paths = RunCatalog
    /\ Len(ScanLoads) <= Len(RunCatalog)
    /\ \A i \in DOMAIN ScanLoads : ScanLoads[i] = url_base \o RunCatalog[i]
    /\ Len(evals) <= Len(ScanLoads) /\ Len(ScanLoads) <= Len(evals) + 1
    /\ \A i \in DOMAIN evals : evals[i].path = RunCatalog[i]
    /\ (ScanEntered /\ FlowReturned) =>
         Len(ScanLoads) = Len(RunCatalog) /\ Len(evals) = Len(RunCatalog)

\* a scan of three targets whose first and last were flagged
C4_ThreeTargetsTwoLeaks ==
    /\ ScanEntered /\ FlowReturned
    /\ Len(evals) = 3
    /\ evals[1].flagged /\ ~evals[2].flagged /\ evals[3].flagged

\* the verdicts that flagged their target
FlaggedEvals == SelectSeq(evals, LAMBDA v : v.flagged)

\* C5: for required state "locked" a target is flagged iff its measured size is
\* at least 1 and the unlock button is not visible on its page; for "unlocked",
\* iff its measured size is at least 1 and the balance is not visible on its
\* page; the leaks printed are the flagged targets, with their size and address.
C5_FlaggedIffSizedAndGuardAbsent ==
    /\ \A i \in DOMAIN evals :
         LET v == evals[i]
         IN  /\ state \in {StrLocked, StrUnlocked}
             /\ state = StrLocked => (v.flagged <=> (v.size >= 1 /\ ~v.view.unlock))
             /\ state = StrUnlocked => (v.flagged <=> (v.size >= 1 /\ ~v.view.balance))
    /\ Len(Leaks) = Len(FlaggedEvals)
    /\ \A i \in DOMAIN Leaks :
         Leaks[i].text = url_base \o FlaggedEvals[i].path /\ Leaks[i].n = FlaggedEvals[i].size

\* required state locked: a sized target without the unlock button was flagged,
\* and a sized target with it was not
C5_LockedBothVerdicts ==
    /\ state = StrLocked
    /\ \E i, j \in DOMAIN evals :
         /\ evals[i].flagged /\ evals[i].view.balance
         /\ ~evals[j].flagged /\ evals[j].size >= 1 /\ ~evals[j].view.balance

\* required state unlocked: a sized target without the balance was flagged, and
\* a sized target with it was not
C5_UnlockedBothVerdicts ==
    /\ state = StrUnlocked
    /\ \E i, j \in DOMAIN evals :
         /\ evals[i].flagged /\ evals[i].view.unlock
         /\ ~evals[j].flagged /\ evals[j].size >= 1 /\ ~evals[j].view.unlock

\* C6: a target whose root region is not visible has measured size 0 and its
\* text is never read (every read of the text directly follows a probe that
\* found the root region of the same page visible); a target of measured size
\* 0 is never flagged and never printed, whatever the guards show.
C6_HiddenRootSizeZeroNeverFlagged ==
    /\ \A i \in DOMAIN evals :
         /\ ~evals[i].view.root => evals[i].size = 0
         /\ evals[i].size = 0 => ~evals[i].flagged
    /\ \A i \in DOMAIN Leaks : Leaks[i].n >= 1
    /\ \A k \in DOMAIN log : log[k].op = "text" =>
         /\ k > 1
         /\ log[k - 1].op = "visible" /\ log[k - 1].what = "root"
         /\ log[k - 1].tab = log[k].tab
         /\ log[k - 1].vis

\* a target with a hidden root region whose text is non-empty and whose guard
\* is absent was evaluated and not flagged
C6_HiddenRootGuardAbsent ==
    \E i \in DOMAIN evals :
        /\ ~evals[i].view.root /\ evals[i].view.text >= 1
        /\ ~evals[i].view.unlock /\ ~evals[i].view.balance
        /\ evals[i].size = 0 /\ ~evals[i].flagged

\* a target with a visible, empty root region and no guard was not flagged
C6_EmptyRootGuardAbsent ==
    \E i \in DOMAIN evals :
        /\ evals[i].view.root /\ evals[i].view.text = 0
        /\ ~evals[i].view.unlock /\ ~evals[i].view.balance
        /\ ~evals[i].flagged

----------------------------------------------------------------------------
(* C7 *)

\* the scenario's lists
ScenarioIn == [pages |-> <<HomePath>>, fragments |-> <<FragSend, FragSettings>>]

\* C7: the catalog is, for each page in order, the page followed by the page
\* with each fragment in order, every repeated entry after its first occurrence
\* removed; for pages ["/home.html"] and fragments ["#send", "#settings"] it is
\* exactly ["/home.html", "/home.html#send", "/home.html#settings"].
C7_CatalogIsDedupedCrossProduct ==
    fout.done =>
        /\ fout.paths = RefCatalog(fin.pages, fin.fragments)
        /\ \A i, j \in DOMAIN fout.paths : fout.paths[i] = fout.paths[j] => i = j
        /\ fin = ScenarioIn =>
             fout.paths = << <<"/", "h", "o", "m", "e", ".", "h", "t", "m", "l">>,
                             <<"/", "h", "o", "m", "e", ".", "h", "t", "m", "l", "#", "s", "e", "n", "d">>,
                             <<"/", "h", "o", "m", "e", ".", "h", "t", "m", "l", "#",
                               "s", "e", "t", "t", "i", "n", "g", "s">> >>

\* the scenario's catalog was built
C7_Scenario == fout.done /\ fin = ScenarioIn /\ Len(fout.paths) = 3

\* lists with a repeated page and a repeated fragment, out of alphabetical order
C7_RepeatedEntries ==
    /\ fout.done
    /\ fin.pages = <<PopupPath, PopupPath>>
    /\ fin.fragments = <<FragSettings, FragSend, FragSettings>>
    /\ Len(fout.paths) = 3

----------------------------------------------------------------------------
(* C8 *)

\* the states the two probes report of a page
StatesReported ==
    (IF ~fout.created THEN {"NotCreated"} ELSE {})
    \cup (IF fout.locked THEN {"Locked"} ELSE {})
    \cup (IF fout.created /\ ~fout.locked THEN {"Unlocked"} ELSE {})

\* C8 as stated: NotCreated iff the create button is visible, Locked iff the
\* unlock button is visible, Unlocked otherwise, and exactly one state for
\* every combination of the two probes.
C8_OneStatePerCombination ==
    fout.done =>
        /\ ("NotCreated" \in StatesReported <=> fin.create)
        /\ ("Locked" \in StatesReported <=> fin.unlock)
        /\ ("Unlocked" \in StatesReported <=> (~fin.create /\ ~fin.unlock))
        /\ Cardinality(StatesReported) = 1

\* C8, amended: the probes are functions of the two buttons only: not created
\* iff the create button is visible, locked iff the unlock button is visible;
\* the state the flows act on, which test creation first, is NotCreated iff the
\* create button is visible, Locked iff the unlock button is visible and the
\* create button is not, Unlocked iff neither is; it is the one state reported
\* unless both buttons are visible, and pages that agree on the two buttons
\* get the same answers.
C8_OracleOfTwoProbes ==
    fout.done =>
        /\ fout.created <=> ~fin.create
        /\ fout.locked <=> fin.unlock
        /\ fout.state = "NotCreated" <=> fin.create
        /\ fout.state = "Locked" <=> (fin.unlock /\ ~fin.create)
        /\ fout.state = "Unlocked" <=> (~fin.unlock /\ ~fin.create)
        /\ fout.state \in StatesReported
        /\ ~(fin.create /\ fin.unlock) => StatesReported = {fout.state}
        /\ \A v \in AllViews :
             (v.create = fin.create /\ v.unlock = fin.unlock) =>
                 /\ created(v) = fout.created
                 /\ locked(v) = fout.locked
                 /\ Oracle(v) = fout.state

\* a page that shows the unlock button and the balance was read as Locked
C8_LockedWithBalance ==
    fout.done /\ fin.unlock /\ ~fin.create /\ fin.balance /\ fout.state = "Locked"

\* a page that shows both buttons was read
C8_BothButtons == fout.done /\ fin.create /\ fin.unlock

----------------------------------------------------------------------------
(* C11, C12, C13: access_control *)

\* the wallet state the required state names
RequiredWallet == IF state = StrLocked THEN "Locked" ELSE "Unlocked"

\* C11: access_control forces the wallet into the required state before the
\* scan: for "locked" and for "unlocked", from either created starting state,
\* the wallet is in the required state when the first catalog target is loaded.
C11_RequiredStateAtFirstLoad ==
    Len(ScanLoads) = 1 => wallet = RequiredWallet

\* the part of C11 the code keeps: the required state "locked" is forced
C11_LockedIsForced ==
    (state = StrLocked /\ ScanLoads # <<>>) => wallet = "Locked"

\* the positions of the catalog whose target was flagged, in order
FlaggedPositions ==
    LET at == {i \in DOMAIN evals : evals[i].flagged}
    IN  RefPick([i \in DOMAIN evals |-> i], at)

\* C12: one leak report is printed per flagged target, in catalog order, and
\* none for a target that is not flagged; each report carries the measured
\* size of its target and its absolute address, the base address followed by
\* the catalog path, which is the address that was loaded for that target.
C12_OneReportPerFlaggedTarget ==
    /\ Len(Leaks) = Len(FlaggedPositions)
    /\ \A k \in DOMAIN Leaks :
         LET i == FlaggedPositions[k]
         IN  /\ Leaks[k].n = evals[i].size
             /\ Leaks[k].text = url_base \o RunCatalog[i]
             /\ Leaks[k].text = ScanLoads[i]
    /\ \A k, h \in DOMAIN Leaks : Leaks[k].text = Leaks[h].text => k = h

\* a scan of three targets printed reports for the last two only
C12_TwoReportsOfThree ==
    /\ Len(evals) = 3 /\ ~evals[1].flagged
    /\ Len(Leaks) = 2
    /\ Leaks[1].text = ScanLoads[2] /\ Leaks[2].text = ScanLoads[3]

\* C13: whenever at least one target of the catalog was flagged, at any
\* position, the result the scan holds when it ends is "leak".
C13_AggregateIsLeakWhenAnyFlagged ==
    (ScanEntered /\ FlowReturned /\ \E i \in DOMAIN evals : evals[i].flagged) => success

----------------------------------------------------------------------------
(* C14 *)

\* the lines printed after the last submission
AfterLastAttempt ==
    LET clicks == {i \in DOMAIN log : ClickAt(i)}
    IN  SelectSeq(console, LAMBDA l : clicks # {} /\ l.at >= Max(clicks))

\* C14: when every candidate has been attempted and the wallet is still
\* locked, unlock_brute_force completes without raising, and reports the
\* exhaustion: a line is printed after the last attempt that is neither the
\* alert of a found credential nor an error.
C14_ExhaustionReportedAsNegativeFinding ==
    (BrutePre /\ FlowReturned /\ OutcomeExhausted) =>
        /\ texc = "none" /\ exc = "none"
        /\ \E i \in DOMAIN AfterLastAttempt : AfterLastAttempt[i].kind \notin {"alert", "error"}

\* the part of C14 the code keeps: exhaustion raises nothing and prints
\* neither an alert nor an error
C14_ExhaustionIsSilent ==
    (BrutePre /\ FlowReturned /\ OutcomeExhausted) =>
        /\ texc = "none" /\ exc = "none"
        /\ AfterLastAttempt = <<>>
        /\ \A i \in DOMAIN console : console[i].kind = "info"

----------------------------------------------------------------------------
(* C15 *)

\* the positions of the log at which the auto-lock setting is saved
SaveAt == {i \in DOMAIN log : log[i].op = "click" /\ log[i].what = "auto-lockout-button"}

\* the lock probes issued after the setting was saved
RequeryAt == {k \in DOMAIN log : /\ log[k].op = "visible" /\ log[k].what = "unlock"
                                 /\ \E i \in SaveAt : i < k}

RECURSIVE SleptBetween(_, _)
\* the seconds slept between two positions of the log
SleptBetween(i, k) ==
    IF i + 1 >= k THEN 0
    ELSE (IF log[i + 1].op = "sleep" THEN log[i + 1].n ELSE 0) + SleptBetween(i + 1, k)

DefectAlerts == SelectSeq(console, LAMBDA l : l.kind = "alert")

\* C15: idle_lock types an interval of 2 minutes into the auto-lock setting
\* before saving it; at least 125 seconds are slept between the save and the
\* lock probe that follows it; that probe ends the flow without an exception,
\* and the defect alert is printed exactly when the probe did not find the
\* wallet locked.
C15_IdleLockWaitsThenReportsDefect ==
    test = "idle_lock" =>
        /\ \A i \in SaveAt :
             /\ \E f \in 1..(i - 1) : /\ log[f].op = "fill" /\ log[f].what = "autoTimeout"
                                      /\ log[f].text = <<"2">>
             /\ ui.autoLock = <<"2">>
        /\ \A k \in RequeryAt :
             /\ \A i \in SaveAt : SleptBetween(i, k) >= 125
             /\ k = Len(log)
             /\ task = "returned" /\ texc = "none" /\ exc = "none"
             /\ (DefectAlerts # <<>>) <=> ~log[k].vis
        /\ RequeryAt = {} => DefectAlerts = <<>>
        /\ Len(DefectAlerts) <= 1

\* an unlocked wallet that did not lock: the alert is printed and the flow returned
C15_DefectAlerted ==
    /\ test = "idle_lock" /\ FlowReturned
    /\ \E k \in RequeryAt : ~log[k].vis
    /\ Len(DefectAlerts) = 1 /\ texc = "none"

\* a wallet that locked: no alert
C15_LockedNoAlert ==
    /\ test = "idle_lock" /\ FlowReturned
    /\ \E k \in RequeryAt : log[k].vis
    /\ DefectAlerts = <<>>

----------------------------------------------------------------------------
(* C16 *)

\* the extension the run is given is missing or malformed: the directory named
\* with -e, or, with none named, the copy an earlier run left or the extension
\* auto-location finds
ArtifactOf(e) ==
    IF e.extension # "none" THEN e.extension
    ELSE IF e.destination # "absent" THEN e.destination
    ELSE IF e.located = "none" THEN "missing"
    ELSE e.located

BadArtifact == ArtifactOf(setup) \in {"missing", "file", "nomanifest", "unparsable"}

\* C16: a run whose extension artifact is missing, has no manifest.json, or has
\* a manifest.json that cannot be parsed or lacks manifest_version never
\* launches a browser context.
C16_BadArtifactNeverLaunches == BadArtifact => context = "None"

\* the part that holds: a directory given with -e that does not exist or has
\* no manifest.json ends the program in the setup, before browser_start
C16_NoManifestNeverLaunches ==
    setup.extension \in {"missing", "nomanifest"} =>
        /\ context = "None" /\ playwright = "None" /\ log = <<>>
        /\ setup.step \in {"finish", "exit"} => ~setup.success

\* an unparsable manifest.json is met by __get_url, after the launch
C16_UnparsableMetAfterLaunch ==
    /\ setup.extension = "unparsable" /\ context = "open" /\ texc = "OtherError"

----------------------------------------------------------------------------
(* C20 *)

\* C20: a session directory that existed before the run still exists, whatever
\* the path through the environment setup and the run.
C20_SessionDirectoryNeverDeleted == setup.existed => setup.session = "old"

\* the part that holds: a run whose setup succeeds keeps the session directory
C20_KeptWhenSetupSucceeds ==
    (setup.existed /\ setup.step = "done") => setup.session = "old"

\* a configuration failure removed an old session directory
C20_OldSessionRemoved ==
    /\ setup.existed /\ setup.session = "removed" /\ rpc = "config_exit"

----------------------------------------------------------------------------
(* C17 *)

\* the flows that require the extra value, selected without it
ValueAbsent ==
    /\ test \in {"existing", "unlock_brute_force", "access_control"}
    /\ get_extra_value(value) = <<>>

RequiredErrors ==
    SelectSeq(console, LAMBDA l : l.msg \in {"mnemonic_required", "wordlist_required",
                                             "state_required"})

\* C17: a run of existing, unlock_brute_force or access_control without the
\* extra value launches no browser context and issues no browser action.
C17_AbsentValueNoBrowserEffect ==
    ValueAbsent => /\ playwright = "None" /\ context = "None"
                   /\ log = <<>> /\ tabs = <<>>

\* the missing value is reported by the flow itself, after its page was
\* opened and navigated
C17_ReportedAfterBrowserActions ==
    /\ ValueAbsent /\ RequiredErrors # <<>>
    /\ \E i, k \in DOMAIN log : log[i].op = "new_page" /\ log[k].op = "goto"
                                /\ k <= RequiredErrors[1].at

\* the missing value is never reported: the wallet gate ends the flow first
C17_NeverReported ==
    /\ ValueAbsent /\ rpc = "exited" /\ exc = "none" /\ RequiredErrors = <<>>

----------------------------------------------------------------------------
(* C18 *)

BrowserErrors == {"PlaywrightError"}

\* C18: existing, run without a mnemonic on a wallet that is not created,
\* never ends with a browser error, and when it ends it has printed the
\* mnemonic-required error, whatever controls the onboarding screens render.
C18_NoMnemonicEndsInUsageError ==
    (test = "existing" /\ get_extra_value(value) = <<>> /\ wallet = "NotCreated") =>
        /\ texc \notin BrowserErrors /\ exc \notin BrowserErrors
        /\ FlowReturned => RequiredErrors # <<>>

\* the part that holds: on screens that render every control the flow ends
\* with the usage error
C18_UsageErrorWhenScreensRender ==
    (test = "existing" /\ get_extra_value(value) = <<>> /\ wallet = "NotCreated"
        /\ ui.shown = Controls) =>
        /\ texc \notin BrowserErrors /\ exc \notin BrowserErrors
        /\ FlowReturned => RequiredErrors # <<>>

\* the onboarding lacks a control pressed before the mnemonic is read: the
\* locator times out and no usage error was printed
C18_LocatorTimeoutBeforeCheck ==
    /\ test = "existing" /\ get_extra_value(value) = <<>> /\ wallet = "NotCreated"
    /\ texc = "PlaywrightError" /\ pc \in {"ex_tick", "ex_import", "ex_no_thanks"}
    /\ RequiredErrors = <<>>

----------------------------------------------------------------------------
(* C19 *)

\* C19: a name the parser accepts that no method of the sandbox carries is
\* rejected before browser_start: playwright is not started, no context is
\* launched, no browser action is issued.
C19_AcceptedNameWithoutHandlerHasNoBrowserEffect ==
    (test \in ParserTests /\ test \notin Methods) =>
        /\ playwright = "None" /\ context = "None" /\ log = <<>>

\* the name fails in getattr, after browser_start has launched the context
C19_RejectedAfterStart ==
    /\ test \in ParserTests /\ test \notin Methods
    /\ context = "open" /\ exc = "AttributeError" /\ rpc = "finally"

----------------------------------------------------------------------------
(* C21 *)

\* C21: in whatever state Test.run reaches its finally block, browser_stop
\* runs through without raising: when the run has exited, the context is
\* closed, playwright is stopped, and the lines after browser_stop in the
\* finally block have closed the event loop.
C21_StopSafeInEveryTeardownState ==
    (stopInvoked > 0 /\ rpc = "exited") =>
        /\ context = "closed" /\ playwright = "stopped" /\ loop = "closed"

\* the part that holds: with a context launched, browser_stop runs through
C21_StopSafeOnceLaunched ==
    (stopInvoked > 0 /\ rpc = "exited" /\ \E i \in DOMAIN log : log[i].op = "launch") =>
        /\ context = "closed" /\ playwright = "stopped" /\ loop = "closed"

\* browser_stop was invoked with no context launched: it raised, playwright
\* was started and is left running, the event loop is left open
C21_StopRaisedOnNoContext ==
    /\ stopInvoked = 1 /\ rpc = "exited" /\ exc = "AttributeError"
    /\ context = "None" /\ playwright = "started" /\ loop = "open"

----------------------------------------------------------------------------
(* C22 *)

\* the controls the flow pressed, filled or typed into, in order
Pressed ==
    LET acts == SelectSeq(log, LAMBDA e : e.op \in {"click", "fill", "type"})
    IN  [i \in DOMAIN acts |-> acts[i].what]

\* the flow found no wallet at its gate
FoundNotCreated == \E i \in DOMAIN log : log[i].op = "visible" /\ log[i].what = "create" /\ log[i].vis

\* create, or existing with a mnemonic, that found no wallet and returned
SetupCompleted ==
    /\ test = "create" \/ (test = "existing" /\ get_extra_value(value) # <<>>)
    /\ FoundNotCreated
    /\ FlowReturned

\* C22: a create flow, or an existing flow given a mnemonic, that starts on a
\* wallet that is not created and returns without a browser error has walked
\* the whole onboarding, through its last screen, and leaves the wallet
\* Unlocked.
C22_SetupEndsUnlocked ==
    SetupCompleted =>
        /\ texc = "none"
        /\ wallet = "Unlocked"
        /\ Len(Pressed) >= 2
        /\ Pressed[Len(Pressed) - 1] = "done"
        /\ Pressed[Len(Pressed)] = "popover-close"
        /\ test = "create" =>
             Pressed = <<"checkbox", "create a new wallet", "no thanks", "checkbox",
                         "new password", "new password", "create a new wallet",
                         "remind me later", "checkbox", "skip", "got it", "next", "done",
                         "popover-close">>
        /\ test = "existing" =>
             Pressed = <<"checkbox", "import an existing wallet", "no thanks">>
                       \o [i \in 1..Len(Split(value, <<" ">>)) |-> "mnemonic"]
                       \o <<"confirm Secret Recovery Phrase", "checkbox", "new password",
                            "new password", "import my wallet", "got it", "next", "done",
                            "popover-close">>

\* a wallet imported from a mnemonic of two words
C22_ImportedUnlocked ==
    /\ test = "existing" /\ SetupCompleted /\ wallet = "Unlocked"
    /\ \E i, k \in DOMAIN log : /\ i < k /\ log[i].op = "type" /\ log[k].op = "type"
                                /\ log[i].text = <<"a">> /\ log[k].text = <<"b">>

\* a wallet created
C22_CreatedUnlocked == test = "create" /\ SetupCompleted /\ wallet = "Unlocked"

----------------------------------------------------------------------------
(* C23 *)

\* the last browser action issued is a navigation to the lock address
LockLoadIssued(l) ==
    /\ l # <<>>
    /\ l[Len(l)].op = "goto"
    /\ l[Len(l)].text = url_base \o <<"/">> \o home_page \o LockFragment

\* C23: the lock step queries the lock probe and nothing else; it goes on to
\* navigate to the lock address exactly when the oracle did not report Locked;
\* on a locked wallet the query changes nothing and the wallet stays Locked;
\* the navigation leaves the wallet Locked; and no other step of the flow
\* navigates to the lock address.
C23_LockNavigatesIffNotLocked ==
    [][/\ (pc = "lock_probe" /\ pc' # "lock_probe") =>
            /\ log' = Append(log, Ev("visible", page, "unlock", <<>>, wallet = "Locked", 0))
            /\ wallet' = wallet /\ tabs' = tabs
            /\ (pc' = "lock_goto") <=> (Oracle(tabs[page].view) # "Locked")
       /\ (pc = "lock_goto" /\ pc' # "lock_goto") =>
            /\ log' = Append(log, Ev("goto", page, "", url_base \o <<"/">> \o home_page
                                                        \o <<"#", "l", "o", "c", "k">>, FALSE, 0))
            /\ wallet' = "Locked"
            /\ Oracle(tabs'[page].view) = "Locked"
       /\ (log' # log /\ LockLoadIssued(log')) => pc = "lock_goto"
      ]_vars

\* the lock step met a locked wallet and the flow went on without a navigation
C23_LockedNotNavigated ==
    /\ LockProbeAt # 0 /\ log[LockProbeAt].vis
    /\ Len(log) > LockProbeAt /\ log[LockProbeAt + 1].op = "fill"
    /\ \A i \in DOMAIN log : i > LockProbeAt => log[i].op # "goto"

\* the lock step met an unlocked wallet and navigated to the lock address
C23_UnlockedNavigated ==
    /\ LockProbeAt # 0 /\ ~log[LockProbeAt].vis
    /\ Len(log) > LockProbeAt /\ log[LockProbeAt + 1].op = "goto"
    /\ wallet = "Locked"

----------------------------------------------------------------------------
(* C24 *)

\* the unlock flow met the lock screen
LockScreenMet == LockProbeAt # 0 /\ log[LockProbeAt].vis

\* the lines of the flow that state a finding or a failure
Findings == SelectSeq(console, LAMBDA l : l.kind \in {"alert", "error"})

\* C24: unlock submits at most one password, and only to a lock screen it
\* met; the password submitted is the supplied value whenever a value was
\* supplied, and the configured password otherwise; having met the lock
\* screen, the flow returns after exactly one submission, without an
\* exception and without a line about the outcome, and a wrong password
\* leaves the wallet Locked.
C24_UnlockSubmitsSuppliedPasswordOnce ==
    test = "unlock" =>
        /\ Len(Submitted) <= 1
        /\ texc = "none"
        /\ Submitted # <<>> =>
             /\ LockScreenMet
             /\ Submitted[1] = (IF value # <<>> THEN value ELSE password)
        /\ (LockScreenMet /\ FlowReturned) =>
             /\ Len(Submitted) = 1
             /\ exc = "none"
             /\ Findings = <<>>
             /\ Submitted[1] # truePassword => wallet = "Locked"
             /\ Submitted[1] = truePassword => wallet = "Unlocked"

\* a wrong password was supplied and submitted once; the wallet is Locked
C24_WrongPasswordOnce ==
    /\ test = "unlock" /\ FlowReturned /\ LockScreenMet
    /\ value # <<>> /\ value # password /\ value # truePassword
    /\ Submitted = <<value>> /\ wallet = "Locked"

\* the supplied password was the wallet's, the configured one was not
C24_SuppliedPasswordUnlocks ==
    /\ test = "unlock" /\ FlowReturned /\ LockScreenMet
    /\ value = truePassword /\ password # truePassword
    /\ Submitted = <<value>> /\ wallet = "Unlocked"

----------------------------------------------------------------------------
(* C25 *)

\* the attempts the oracle answered with Locked
FailedAttempts ==
    {i \in DOMAIN log : ClickAt(i) /\ AnswerTo(i) # 0 /\ log[AnswerTo(i)].vis}

\* the wordlist a, Password123!, b was run against a created wallet whose
\* password is Password123!, and the flow has returned
ScenarioRun ==
    /\ test = "unlock_brute_force"
    /\ file.lines = <<PwA, Password123, PwB>> /\ truePassword = Password123
    /\ wallet # "NotCreated"
    /\ FlowReturned

\* C25 as stated: the credential Password123! is reported after exactly two
\* failed attempts.
C25_ReportedAfterTwoFailedAttempts ==
    ScenarioRun =>
        /\ Reported = <<Password123>>
        /\ Cardinality(FailedAttempts) = 2

\* C25: for the wordlist a, Password123!, b and the true password
\* Password123!, unlock_brute_force reports the credential Password123! at its
\* second attempt, after exactly one failed attempt, and b is never attempted.
C25_ReportedAtSecondAttempt ==
    ScenarioRun =>
        /\ Reported = <<Password123>>
        /\ Submitted = <<PwA, Password123>>
        /\ Cardinality(FailedAttempts) = 1
        /\ wallet = "Unlocked"

\* the scenario has run: two attempts, the first one failed
C25_ScenarioRan ==
    /\ ScenarioRun /\ Len(Submitted) = 2 /\ Len(Reported) = 1
    /\ \E i \in FailedAttempts : log[i].text = PwA

----------------------------------------------------------------------------
(* C26 *)

\* C26: unique with sort off, applied to its own result, yields that result:
\* the same elements in the same order.
C26_UniqueIsIdempotent == fout.done => fout.twice = fout.once

\* a sequence with repeats, which one application shortens
C26_RepeatsRemovedOnce ==
    /\ fout.done /\ fin = <<PwB, PwA, PwB, PwA>>
    /\ fout.once = <<PwB, PwA>> /\ fout.twice = <<PwB, PwA>>

----------------------------------------------------------------------------
(* C27 *)

\* C27: every download a page starts during a flow is passed to the save
\* handler and saved under the downloads directory with its suggested file
\* name.
C27_EveryDownloadSaved ==
    \A i \in DownloadsSeen : log[i].vis /\ log[i].what = "suggested_filename"

\* a download on the page the flow opened was not passed to the save handler
C27_DownloadNotSaved ==
    \E i \in DownloadsSeen : log[i].tab = page /\ page # 0 /\ ~log[i].vis

----------------------------------------------------------------------------
(* C28 *)

\* a browser action of browser_start or of the selected flow has raised
ActionRaised == texc = "PlaywrightError"

\* C28: once a browser action has raised a locator timeout or navigation
\* error, the coroutine stays where it raised, no browser action is issued or
\* answered any more, and the only change to the browser is its teardown: the
\* context closes with its pages, and Playwright stops.
C28_RaisedActionEndsTheFlow ==
    [][ActionRaised =>
          /\ texc' = texc /\ pc' = pc /\ ret' = ret
          /\ log' = log /\ evals' = evals /\ wallet' = wallet /\ ui' = ui
          /\ context' \in {context, "closed"}
          /\ playwright' \in {playwright, "stopped"}
          /\ \A t \in DOMAIN tabs :
                /\ t \in DOMAIN tabs'
                /\ tabs'[t].url = tabs[t].url /\ tabs'[t].typed = tabs[t].typed
          /\ DOMAIN tabs' = DOMAIN tabs]_vars

\* an action inside the brute-force loop raised after an attempt had been
\* submitted, and the run went through teardown to its exit
C28_RaisedInLoopThenExit ==
    /\ ActionRaised /\ rpc = "exited" /\ context = "closed"
    /\ test = "unlock_brute_force" /\ pc \in {"ubf_fill", "ubf_click", "ubf_check"}
    /\ \E i \in DOMAIN log : log[i].op = "click"

\* an onboarding flow raised on a control that the screen does not render
C28_RaisedOnMissingControl ==
    /\ ActionRaised /\ rpc = "exited"
    /\ test \in {"create", "existing"} /\ pc \in CreateLabels \cup ExistingLabels

----------------------------------------------------------------------------
(* C29 *)

\* browser_stop awaits context.close(), which has not completed yet
CloseInProgress == rpc = "stop_close"

Launches == {i \in DOMAIN log : log[i].op = "launch"}

\* one context is launched per run, by browser_start, as its first action
OneContextPerRun ==
    /\ Cardinality(Launches) <= 1
    /\ context # "None" => Launches = {1}

\* C29: browser actions are strictly sequential, so that no browser action is
\* issued while another is in progress, the closing of the context included,
\* and exactly one browser context is launched per run, by browser_start.
C29_SequentialActionsOneContext ==
    /\ [][CloseInProgress => log' = log]_vars
    /\ []OneContextPerRun

\* the part of C29 the code keeps: one context per run, and no action issued
\* during the closing of the context unless the run was interrupted
C29_SequentialUnlessInterrupted ==
    /\ [][CloseInProgress /\ exc # "KeyboardInterrupt" => log' = log]_vars
    /\ []OneContextPerRun

\* the interrupted flow issued a browser action while context.close() was in
\* progress
C29_ActedDuringClose ==
    /\ CloseInProgress /\ task \in {"orphan", "orphan_done"} /\ lateActions
    /\ log # <<>> /\ log[Len(log)].op \notin {"launch", "grant"}

----------------------------------------------------------------------------
(* C30 *)

\* the loads of the targets, as positions of the log: every load on a page
\* other than the flow's own
TargetLoads == {i \in DOMAIN log : log[i].op = "goto" /\ log[i].tab # page}

\* the position of the target, in catalog order, that the load at i is of
TargetOf(i) == Cardinality({j \in TargetLoads : j <= i})

\* the load before the load at i
LoadBefore(i) == CHOOSE j \in TargetLoads : j < i /\ TargetOf(j) = TargetOf(i) - 1

\* the page loaded at i was opened for this load: new_page returned it right
\* before, and nothing had been loaded in it
FreshAt(i) ==
    /\ i > 1 /\ log[i - 1].op = "new_page" /\ log[i - 1].tab = log[i].tab
    /\ \A j \in DOMAIN log : (j < i /\ log[j].op = "goto") => log[j].tab # log[i].tab

\* C30: in access_control the first target is loaded in a freshly opened page;
\* a later target is loaded in the page of the target before it when that one
\* was not flagged, and in a freshly opened page when it was flagged.
C30_PageReusedUntilFlagged ==
    \A i \in TargetLoads :
        IF TargetOf(i) = 1 THEN FreshAt(i)
        ELSE /\ TargetOf(i) - 1 \in DOMAIN evals
             /\ IF evals[TargetOf(i) - 1].flagged
                THEN FreshAt(i) /\ log[i].tab # log[LoadBefore(i)].tab
                ELSE log[i].tab = log[LoadBefore(i)].tab

\* a target was loaded in the page of the unflagged target before it
C30_PageReused ==
    \E i \in TargetLoads :
        /\ TargetOf(i) > 1 /\ ~evals[TargetOf(i) - 1].flagged
        /\ log[i].tab = log[LoadBefore(i)].tab

\* a target was loaded in a fresh page after the target before it was flagged
C30_FreshAfterFlagged ==
    \E i \in TargetLoads :
        /\ TargetOf(i) > 1 /\ evals[TargetOf(i) - 1].flagged
        /\ FreshAt(i) /\ log[i].tab # log[LoadBefore(i)].tab

----------------------------------------------------------------------------
(* C31 *)

\* the visibility probes: the oracle's queries and the guard's
Queries == {i \in DOMAIN log : log[i].op = "visible"}

\* the actions that change what a page shows
Disturbs(e) == e.op \in {"goto", "click", "fill", "type"}

\* the settle waits completed before position i
SettledBefore(i) == {j \in DOMAIN log : j < i /\ log[j].op = "load"}

\* C31: every visibility probe is made on a page after a settle wait has
\* completed, with no click, fill or navigation on that page between the end
\* of the wait and the probe; no probe directly follows a click.
C31_QueriesFollowASettleWait ==
    \A i \in Queries :
        /\ log[i - 1].op # "click"
        /\ \E j \in SettledBefore(i) :
              \A k \in (j + 1)..(i - 1) : ~(Disturbs(log[k]) /\ log[k].tab = log[i].tab)

\* the oracle was queried after a submitted password, with a settle wait between
C31_QueriedAfterSubmit ==
    \E i \in Queries : \E k \in 1..(i - 1) :
        /\ log[k].op = "click" /\ log[k].what = "unlock" /\ log[k].tab = log[i].tab
        /\ log[i].what = "unlock"
        /\ \E j \in SettledBefore(i) : j > k

\* the guard was probed on a scan page after its target had loaded and settled
C31_GuardProbedAfterLoad ==
    \E i \in Queries :
        /\ log[i].what = GuardName /\ log[i].tab = tmp /\ tmp # page
        /\ \E j \in SettledBefore(i) : log[j - 1].op \in {"goto", "sleep"}

----------------------------------------------------------------------------
(* C32 *)

\* the loads and the clicks of __submit: every click but the checkbox tick
Settles(e) == e.op = "goto" \/ (e.op = "click" /\ e.what # "checkbox")

\* the settle wait that follows position i, as far as the log has it: the
\* fixed delay d when d > 0, then the wait for the load state
WaitFollows(i, d) ==
    IF d > 0
    THEN /\ (i + 1 \in DOMAIN log => log[i + 1].op = "sleep" /\ log[i + 1].n = d)
         /\ (i + 2 \in DOMAIN log => log[i + 2].op = "load")
    ELSE i + 1 \in DOMAIN log => log[i + 1].op = "load"

\* C32: every navigation and every submit is followed by one settle wait
\* before anything else happens: the configured delay when it is greater than
\* 0, then the wait for the load state.  A wait with an override sleeps the
\* override alone.  Until the wait is over the coroutine is inside __wait.
C32_OneSettleWaitAfterLoadAndSubmit ==
    /\ \A i \in DOMAIN log :
          /\ Settles(log[i]) => WaitFollows(i, IF wait_time > 0 THEN wait_time ELSE 0)
          /\ log[i].op = "sleep" =>
                /\ log[i].n \in {wait_time, IdleWaitTime} /\ log[i].n > 0
                /\ (i + 1 \in DOMAIN log => log[i + 1].op = "load")
                /\ Settles(log[i - 1]) \/ log[i].n = IdleWaitTime
          /\ log[i].op = "load" => Settles(log[i - 1]) \/ log[i - 1].op = "sleep"
    /\ (log # <<>> /\ task = "running" /\ rpc = "flow") =>
          /\ Settles(log[Len(log)]) => pc \in {"wait_sleep", "wait_load"}
          /\ log[Len(log)].op = "sleep" => pc = "wait_load"

\* idle_lock waited with its override while a wait time was configured
C32_OverrideReplacedDelay ==
    \E i \in DOMAIN log :
        /\ log[i].op = "sleep" /\ log[i].n = IdleWaitTime /\ wait_time > 0
        /\ i + 1 \in DOMAIN log

\* a submitted password was followed by the load wait alone: no delay configured
C32_SubmitWithoutDelay ==
    \E i \in DOMAIN log :
        /\ log[i].op = "click" /\ log[i].what = "unlock" /\ wait_time = 0
        /\ i + 1 \in DOMAIN log /\ log[i + 1].op = "load"

----------------------------------------------------------------------------
(* C33 *)

\* browser_start raised at a step after the driver had been started
StartFailed ==
    /\ task = "raised" /\ texc \in {"PlaywrightError", "AttributeError"}
    /\ pc \in {"bs_launch", "bs_grant", "bs_url"}

TeardownComplete == context # "open" /\ playwright = "stopped" /\ loop = "closed"

\* C33: when browser_start fails after the driver has been started, before or
\* after the context exists, Test.run's teardown still completes: the context,
\* if any, is closed, the driver is stopped, the event loop is closed.
C33_TeardownCompletesAfterFailedStart ==
    (StartFailed /\ rpc = "exited") => TeardownComplete

\* the part of C33 the code keeps: teardown completes when the start failed
\* with the context already launched
C33_TeardownCompletesOnceLaunched ==
    (StartFailed /\ rpc = "exited" /\ pc # "bs_launch") => TeardownComplete

\* the launch of the context raised, and the run ended with the driver still
\* running and the event loop open
C33_DriverLeftRunning ==
    /\ StartFailed /\ texc = "PlaywrightError" /\ pc = "bs_launch" /\ rpc = "exited"
    /\ playwright = "started" /\ loop = "open" /\ exc = "AttributeError"

\* the start failed after the launch, and teardown closed the context
C33_FailedAfterLaunchClosed ==
    StartFailed /\ pc \in {"bs_grant", "bs_url"} /\ rpc = "exited" /\ context = "closed"

----------------------------------------------------------------------------
(* C34 *)

\* the pages the scan opened: every page opened after the flow's own
ScanPages == {log[i].tab : i \in {j \in DOMAIN log : log[j].op = "new_page"}} \ {page}

Flagged == {k \in DOMAIN evals : evals[k].flagged}

\* the verdict on the last target loaded in scan page t
LastVerdictOn(t) ==
    evals[CHOOSE k \in DOMAIN evals :
              /\ evals[k].tab = t
              /\ \A m \in DOMAIN evals : evals[m].tab = t => m <= k]

\* access_control has returned and the browser is still up
ScanFinished == test = "access_control" /\ task = "returned" /\ context = "open"

\* C34: when a scan finishes, as many scan pages are open as targets were
\* flagged: every flagged target's page is open and shows that target, a scan
\* page whose last target was not flagged is closed, and with no target no
\* scan page was opened or closed.
C34_OpenScanPagesAreTheLeaks ==
    ScanFinished =>
        /\ Cardinality({t \in ScanPages : tabs[t].open}) = Cardinality(Flagged)
        /\ \A k \in Flagged :
              /\ evals[k].tab \in ScanPages /\ tabs[evals[k].tab].open
              /\ tabs[evals[k].tab].url = ExtensionUrl(url_base, evals[k].path)
              /\ \A m \in Flagged : evals[m].tab = evals[k].tab => m = k
        /\ \A t \in ScanPages : tabs[t].open = LastVerdictOn(t).flagged
        /\ evals = <<>> => ScanPages = {} /\ \A i \in DOMAIN log : log[i].op # "close"

\* a scan finished with a flagged page left open and its last page closed
C34_LeakOpenLastClosed ==
    /\ ScanFinished /\ Flagged # {}
    /\ \E t \in ScanPages : ~tabs[t].open
    /\ \E t \in ScanPages : tabs[t].open

\* a scan of an empty catalog finished
C34_EmptyCatalogScanned ==
    /\ ScanFinished /\ state \in {StrLocked, StrUnlocked} /\ paths = <<>> /\ pc # "ac_is_created"
    /\ ScanPages = {}

----------------------------------------------------------------------------
(* C35 *)

OnboardingFlows == {"create", "existing"}
CreatedFlows == {"unlock", "unlock_brute_force", "idle_lock", "access_control"}

\* the queries of the creation gate, and those that found a wallet
GateQueries == {i \in DOMAIN log : log[i].op = "visible" /\ log[i].what = "create"}
GateSaidCreated == \E i \in GateQueries : ~log[i].vis

\* the actions that press, fill or type
Inputs == {i \in DOMAIN log : log[i].op \in {"click", "fill", "type"}}

\* the first load of the home page in the flow's page
HomeLoads == {i \in DOMAIN log : log[i].op = "goto"}

\* after the home page was loaded the flow only waited for it to settle and
\* queried the creation gate, once, as its last action
OnlyGateAfterHome ==
    \A i \in HomeLoads :
        /\ \A j \in HomeLoads : j = i
        /\ \A k \in (i + 1)..Len(log) :
              \/ log[k].op \in {"sleep", "load"}
              \/ k \in GateQueries /\ k = Len(log) /\ log[k].vis

\* C35: create and existing started on a wallet that the creation gate reports
\* as created (Locked or Unlocked) issue no tick, fill or click and leave the
\* wallet as it is; unlock, unlock_brute_force, idle_lock and access_control
\* started on a NotCreated wallet issue nothing after the load of the home
\* page but the query of the creation gate, and leave the wallet NotCreated.
C35_FlowsActOnlyInTheirWalletState ==
    /\ [](/\ (test \in OnboardingFlows /\ GateSaidCreated) =>
                Inputs = {} /\ wallet \in {"Locked", "Unlocked"}
          /\ (test \in OnboardingFlows /\ wallet \in {"Locked", "Unlocked"} /\ Inputs = {}
                /\ GateQueries # {}) => GateSaidCreated
          /\ (test \in CreatedFlows /\ wallet = "NotCreated") => OnlyGateAfterHome)
    /\ [][/\ (test \in OnboardingFlows /\ wallet \in {"Locked", "Unlocked"} /\ Inputs = {}) =>
                wallet' = wallet /\ ui' = ui
          /\ (test \in CreatedFlows /\ wallet = "NotCreated") => wallet' = wallet /\ ui' = ui]_vars

\* create or existing found a wallet and returned
C35_OnboardingRefused ==
    /\ test \in OnboardingFlows /\ GateSaidCreated /\ task = "returned"
    /\ wallet \in {"Locked", "Unlocked"}

\* a flow for a created wallet found none and returned
C35_CreatedFlowRefused ==
    /\ test \in CreatedFlows /\ wallet = "NotCreated" /\ task = "returned"
    /\ GateQueries # {} /\ rpc = "flow"

----------------------------------------------------------------------------
(* C36 *)

\* unlock_brute_force without a wordlist
NoWordlist == test = "unlock_brute_force" /\ get_extra_value(value) = <<>>

\* access_control with a state literal that is neither locked nor unlocked
BadState ==
    test = "access_control" /\ Lower(get_extra_value(value)) \notin {StrLocked, StrUnlocked}

\* no password was submitted and no target of the catalog was loaded
NothingProbed ==
    \A i \in DOMAIN log :
        /\ ~(log[i].op = "click" /\ log[i].what = "unlock")
        /\ log[i].op = "goto" => log[i].tab = page /\ paths = <<>> /\ evals = <<>>

\* C36: unlock_brute_force without a wordlist and access_control with an
\* invalid state literal submit no password, load no catalog target, and leave
\* the wallet in the state in which they found it.
C36_InvalidValueChangesNothing ==
    /\ []((NoWordlist \/ BadState) => NothingProbed)
    /\ [][(NoWordlist \/ BadState) => wallet' = wallet]_vars

\* the part of C36 the code keeps: no password submitted, no target loaded, and
\* access_control leaves the wallet alone
C36_InvalidStateChangesNothing ==
    /\ []((NoWordlist \/ BadState) => NothingProbed)
    /\ [][BadState => wallet' = wallet]_vars

\* unlock_brute_force locked an unlocked wallet and then reported that the
\* wordlist is missing
C36_LockedBeforeReport ==
    /\ NoWordlist /\ wallet = "Locked"
    /\ \E i \in DOMAIN log : log[i].op = "goto" /\ IsLockPath(log[i].text)
    /\ \E k \in DOMAIN console : console[k].msg = "wordlist_required"

----------------------------------------------------------------------------
(* C37 *)

\* browser_start is over: it returned or raised, and Test.run went on
StartOver == rpc \notin {"try", "start"}

\* the context was launched with the given proxy, and the base address resolved
StartedWith(px) ==
    /\ context # "None" /\ url_base # <<>>
    /\ \E i \in DOMAIN log : log[i].op = "launch" /\ log[i].text = px

\* browser_start ended early for a reason other than the proxy: the browser
\* failed, the operator interrupted, or the extension's manifest was unusable
OtherStartFailure ==
    /\ pc \in StartLabels
    /\ \/ task \in {"orphan", "orphan_done"}
       \/ texc \in {"PlaywrightError", "KeyboardInterrupt", "OtherError"}

\* C37: browser_start with a non-empty proxy address launches the context with
\* that address as its proxy server and reaches the started state of a start
\* without a proxy (context created, base address resolved); the proxy never
\* makes the start fail by itself.
C37_ProxyStartReachesStartedState ==
    (proxy # <<>> /\ StartOver /\ ~OtherStartFailure) => StartedWith(proxy)

\* the start without a proxy reaches the started state
C37_PlainStartReachesStartedState ==
    (proxy = <<>> /\ StartOver /\ ~OtherStartFailure) => StartedWith(<<>>)

\* the start with a proxy raised at the launch, by itself, with no context
C37_ProxyStartFailed ==
    /\ proxy # <<>> /\ StartOver /\ texc = "AttributeError" /\ pc = "bs_launch"
    /\ context = "None" /\ url_base = <<>>
    /\ \A i \in DOMAIN log : log[i].op # "launch"

====
